---- MODULE Spec2Model ----
(***************************************************************************)
(* A model of lyon's experimental fill tessellator                         *)
(* (tessellation/src/experimental.rs): the event set (Traversal) with its  *)
(* linked-list bubble sort, the TraversalBuilder that turns a path into    *)
(* events, and the sweep loop of FillTessellator.                          *)
(*                                                                         *)
(* Coordinates are small integers (every f32 operation the code performs   *)
(* on them is then exact, or is compared exactly as a rational).  Ids are  *)
(* the code's 0-based indices; a Rust Vec is a sequence read with At.      *)
(***************************************************************************)
EXTENDS Integers, Sequences, FiniteSets, TLC

VARIABLES
    tx,        \* Traversal: [events, first, sorted]
    tx_obs,    \* what the last Traversal operation was and how its sort ended
    path,      \* the input Path: a sequence of path events
    cursor,    \* set_path's cursor: index of the next path event
    tb,        \* TraversalBuilder, with its tx and edge_data
    events,    \* tessellate_path's events: the built and sorted Traversal
    edge_data, \* tessellate_path's edge_data
    fill_rule, \* FillTessellator.fill_rule
    active,    \* FillTessellator.active.edges
    spans,     \* FillTessellator.fill.spans
    edges_below,       \* FillTessellator.edges_below
    current_position,  \* FillTessellator.current_position
    current_event,     \* tessellator_loop's current_event
    out,       \* calls received by the GeometryBuilder
    ev,        \* what process_events did at the last event
    run,       \* the calls of tessellate_path on the instance so far
    pc         \* where tessellate_path is

txvars == <<tx, tx_obs>>
pipevars == <<path, cursor, tb, events, edge_data, fill_rule, active, spans,
              edges_below, current_position, current_event, out, ev, run, pc>>
vars == <<tx, tx_obs, path, cursor, tb, events, edge_data, fill_rule, active,
          spans, edges_below, current_position, current_event, out, ev, run,
          pc>>

(***************************************************************************)
(* Bounds of the model.                                                    *)
(***************************************************************************)
TxMaxX == 2
TxMaxY == 1
MaxEvents == 5

\* usize::MAX, the "no sibling" link of a pushed event; any id >= len is
\* out of range, so the largest 32-bit integer stands for it.
USIZE_MAX == 2147483647

Pt(px, py) == [x |-> px, y |-> py]

TxPositions == { Pt(px, py) : px \in 0..TxMaxX, py \in 0..TxMaxY }

At(seq, id) == seq[id + 1]

SetAt(seq, id, v) == [seq EXCEPT ![id + 1] = v]

(***************************************************************************)
(* Order predicates.                                                       *)
(***************************************************************************)
compare_positions(a, b) ==
    IF a.y > b.y THEN "Greater"
    ELSE IF a.y < b.y THEN "Less"
    ELSE IF a.x > b.x THEN "Greater"
    ELSE IF a.x < b.x THEN "Less"
    ELSE "Equal"

is_after(a, b) == a.y > b.y \/ (a.y = b.y /\ a.x > b.x)

(***************************************************************************)
(* Traversal.                                                              *)
(***************************************************************************)
TraversalNew == [events |-> <<>>, first |-> 0, sorted |-> FALSE]

valid_id(t, id) == id < Len(t.events)

next_id(t, id) == At(t.events, id).next_event

next_sibling_id(t, id) == At(t.events, id).next_sibling

position(t, id) == At(t.events, id).position

push(t, p) ==
    [t EXCEPT
        !.events = Append(@, [position |-> p,
                              next_sibling |-> USIZE_MAX,
                              next_event |-> Len(t.events) + 1]),
        !.sorted = FALSE]

clear(t) == [events |-> <<>>, first |-> 0, sorted |-> FALSE]

\* The last event of current's sibling list (lines 968-973).
RECURSIVE LastSibling(_, _)
LastSibling(t, id) ==
    IF valid_id(t, next_sibling_id(t, id))
    THEN LastSibling(t, next_sibling_id(t, id))
    ELSE id

SetNextEvent(t, id, v) ==
    [t EXCEPT !.events = SetAt(@, id, [At(@, id) EXCEPT !.next_event = v])]

SetNextSibling(t, id, v) ==
    [t EXCEPT !.events = SetAt(@, id, [At(@, id) EXCEPT !.next_sibling = v])]

\* SortSwap that leaves next pointing where it pointed: current and next
\* then point at each other's old successors and the pass cycles.
SortSwapNoBackLink(s, next) ==
    LET t0 == s.t
        t1 == IF s.prev # s.current /\ s.prev # next
              THEN SetNextEvent(t0, s.prev, next) ELSE t0
        t2 == IF s.current = t1.first THEN [t1 EXCEPT !.first = next] ELSE t1
        last1 == IF next = s.last THEN s.current ELSE s.last
    IN [s EXCEPT !.t = t2, !.last = last1, !.swapped = TRUE, !.prev = next]

\* Ordering::Greater: swap current and next (lines 947-963).
SortSwap(s, next) ==
    LET t0 == s.t
        t1 == IF s.prev # s.current /\ s.prev # next
              THEN SetNextEvent(t0, s.prev, next) ELSE t0
        t2 == IF s.current = t1.first THEN [t1 EXCEPT !.first = next] ELSE t1
        last1 == IF next = s.last THEN s.current ELSE s.last
        next_next == next_id(t2, next)
        t3 == SetNextEvent(t2, s.current, next_next)
        t4 == SetNextEvent(t3, next, s.current)
    IN [s EXCEPT !.t = t4, !.last = last1, !.swapped = TRUE, !.prev = next]

\* SortEqual writing next over current's own sibling link, without the walk
\* to the tail of the sibling list.
SortEqualNoTail(s, next) ==
    LET next_next == next_id(s.t, next)
        t1 == SetNextEvent(s.t, s.current, next_next)
    IN [s EXCEPT !.t = SetNextSibling(t1, s.current, next)]

\* Ordering::Equal: append next to current's sibling list (lines 964-975).
SortEqual(s, next) ==
    LET next_next == next_id(s.t, next)
        t1 == SetNextEvent(s.t, s.current, next_next)
        tail == LastSibling(t1, s.current)
    IN [s EXCEPT !.t = SetNextSibling(t1, tail, next)]

\* SortCompare treating Equal like Less: equal neighbours are stepped over
\* and stay in the main chain.
SortCompareNoSiblings(s) ==
    IF ~valid_id(s.t, s.current) THEN [s EXCEPT !.status = "index"]
    ELSE LET next == next_id(s.t, s.current) IN
        IF ~valid_id(s.t, next) THEN [s EXCEPT !.status = "index"]
        ELSE LET ord == compare_positions(position(s.t, s.current),
                                          position(s.t, next)) IN
            CASE ord = "Greater" -> SortSwap(s, next)
              [] OTHER -> [s EXCEPT !.prev = s.current, !.current = next]

\* The comparison of one iteration (lines 938-976); an out-of-range
\* events[..] is Rust's index panic.
SortCompare(s) ==
    IF ~valid_id(s.t, s.current) THEN [s EXCEPT !.status = "index"]
    ELSE LET next == next_id(s.t, s.current) IN
        IF ~valid_id(s.t, next) THEN [s EXCEPT !.status = "index"]
        ELSE LET ord == compare_positions(position(s.t, s.current),
                                          position(s.t, next)) IN
            CASE ord = "Less" -> [s EXCEPT !.prev = s.current, !.current = next]
              [] ord = "Greater" -> SortSwap(s, next)
              [] OTHER -> SortEqual(s, next)

\* The iterations of the main loop (lines 918-977) up to the next rewind,
\* the iteration that rewinds included.  iter_count is the test build's
\* counter: the loop body may start n*n times, one more start fails
\* assert!(iter_count > 0).
RECURSIVE SortIterations(_)
SortIterations(s) ==
    IF s.status # "run" THEN s
    ELSE IF s.iter_count = 0 THEN [s EXCEPT !.status = "assert"]
    ELSE
        LET s1 == [s EXCEPT !.iter_count = @ - 1]
            rewind == \/ s1.current = s1.last
                      \/ ~valid_id(s1.t, s1.current)
                      \/ ~valid_id(s1.t, next_id(s1.t, s1.current))
        IN IF rewind
           THEN LET s2 == [s1 EXCEPT !.last = s1.prev,
                                     !.prev = s1.t.first,
                                     !.current = s1.t.first]
                IN IF ~s2.swapped \/ s2.last = s2.t.first
                   THEN [s2 EXCEPT !.status = "ok"]
                   ELSE SortCompare([s2 EXCEPT !.swapped = FALSE])
           ELSE SortIterations(SortCompare(s1))

\* The main loop (lines 918-977), pass after pass until it breaks.
RECURSIVE SortLoop(_)
SortLoop(s) ==
    IF s.status # "run" THEN s
    ELSE LET r == SortIterations(s)
         IN IF r.status # "run" THEN r ELSE SortLoop(r)

SortStart(t) ==
    [t |-> [t EXCEPT !.sorted = TRUE],
     current |-> 0, prev |-> 0, last |-> Len(t.events) - 1,
     swapped |-> FALSE,
     iter_count |-> Len(t.events) * Len(t.events),
     status |-> "run"]

\* One pass of the loop: it stops at the first rewind, sorted or not.
RECURSIVE SortOnePass(_)
SortOnePass(s) ==
    IF s.status # "run" THEN s
    ELSE IF s.iter_count = 0 THEN [s EXCEPT !.status = "assert"]
    ELSE
        LET s1 == [s EXCEPT !.iter_count = @ - 1]
            rewind == \/ s1.current = s1.last
                      \/ ~valid_id(s1.t, s1.current)
                      \/ ~valid_id(s1.t, next_id(s1.t, s1.current))
        IN IF rewind THEN [s1 EXCEPT !.status = "ok"]
           ELSE SortOnePass(SortCompare(s1))

\* sort() as one bubble pass per call and no sorted flag: a second call
\* goes on sorting what the first call left.
SortRunOnePass(t) ==
    IF Len(t.events) <= 1
    THEN [t |-> [t EXCEPT !.sorted = TRUE], status |-> "ok",
          iter_count |-> Len(t.events) * Len(t.events)]
    ELSE LET r == SortOnePass(SortStart(t)) IN
         [t |-> r.t, status |-> r.status, iter_count |-> r.iter_count]

\* Traversal::sort: the resulting Traversal, how the call ended ("ok",
\* "assert": the test build's iteration assertion, "index": an index
\* panic) and what is left of iter_count.
SortRun(t) ==
    IF t.sorted
    THEN [t |-> t, status |-> "ok", iter_count |-> Len(t.events) * Len(t.events)]
    ELSE IF Len(t.events) <= 1
    THEN [t |-> [t EXCEPT !.sorted = TRUE], status |-> "ok",
          iter_count |-> Len(t.events) * Len(t.events)]
    ELSE LET r == SortLoop(SortStart(t)) IN
         [t |-> r.t, status |-> r.status, iter_count |-> r.iter_count]

(***************************************************************************)
(* Iteration over a Traversal, as tessellator_loop and assert_sorted do    *)
(* it: heads by next-event from first_id, siblings by next-sibling.  A     *)
(* walk stops after more steps than there are events (a cycle).            *)
(***************************************************************************)
RECURSIVE WalkEvents(_, _, _)
WalkEvents(t, id, fuel) ==
    IF ~valid_id(t, id) \/ fuel = 0 THEN <<>>
    ELSE <<id>> \o WalkEvents(t, next_id(t, id), fuel - 1)

RECURSIVE WalkSiblings(_, _, _)
WalkSiblings(t, id, fuel) ==
    IF ~valid_id(t, id) \/ fuel = 0 THEN <<>>
    ELSE <<id>> \o WalkSiblings(t, next_sibling_id(t, id), fuel - 1)

Heads(t) == WalkEvents(t, t.first, Len(t.events) + 1)

Siblings(t, id) == WalkSiblings(t, id, Len(t.events) + 1)

(***************************************************************************)
(* Points, vertex ids and the input path.                                  *)
(***************************************************************************)
\* f32::NAN as a coordinate: every comparison with it is false.
NAN == -1000000

\* f32::MIN, the coordinates of current_position before the first event.
F32_MIN == -2000000

\* VertexId::INVALID.
INVALID == -1

NanPoint == Pt(NAN, NAN)

IsNan(p) == p.x = NAN \/ p.y = NAN

\* Point == Point on floats.
PtEq(a, b) == ~IsNan(a) /\ ~IsNan(b) /\ a.x = b.x /\ a.y = b.y

\* is_after on floats.
IsAfter(a, b) == ~IsNan(a) /\ ~IsNan(b) /\ is_after(a, b)

\* Path events.
MoveToEv(p) == [k |-> "MoveTo", ctrl |-> NanPoint, to |-> p]

LineToEv(p) == [k |-> "LineTo", ctrl |-> NanPoint, to |-> p]

QuadraticToEv(c, p) == [k |-> "QuadraticTo", ctrl |-> c, to |-> p]

CloseEv == [k |-> "Close", ctrl |-> NanPoint, to |-> NanPoint]

\* The points a path event stores in the path's vertex array.
EventPoints(e) ==
    CASE e.k = "Close" -> <<>>
      [] e.k = "QuadraticTo" -> <<e.ctrl, e.to>>
      [] OTHER -> <<e.to>>

\* The path's vertex array up to (not including) event i: path[id] is
\* PathPoints(p, Len(p) + 1)[id + 1].
RECURSIVE PathPoints(_, _)
PathPoints(p, i) ==
    IF i <= 1 THEN <<>>
    ELSE PathPoints(p, i - 1) \o EventPoints(p[i - 1])

\* cursor.vertex at event i: the id of the first point the event stores.
CursorVertex(p, i) == Len(PathPoints(p, i))

\* path[id].
PathAt(p, id) == At(PathPoints(p, Len(p) + 1), id)

(***************************************************************************)
(* TraversalBuilder.                                                       *)
(***************************************************************************)
BuilderNew ==
    [current |-> NanPoint, current_id |-> INVALID,
     first |-> NanPoint, first_id |-> INVALID,
     prev |-> NanPoint, second |-> NanPoint, nth |-> 0,
     tx |-> TraversalNew, edge_data |-> <<>>]

EdgeDataOf(from_id, ctrl_id, to_id, w) ==
    [from |-> from_id, ctrl |-> ctrl_id, to |-> to_id, winding |-> w]

vertex_event(b, at) ==
    [b EXCEPT !.tx = push(@, at),
              !.edge_data = Append(@, EdgeDataOf(INVALID, INVALID, INVALID, 0))]

\* quad_to that stores every edge in path order: the event at the
\* segment's first endpoint, from = the current vertex, winding +1.
quad_to_unoriented(b, to, ctrl_id, to_id) ==
    IF PtEq(b.current, to) THEN b
    ELSE
        LET b1 == IF IsAfter(b.current, to)
                     /\ b.nth > 0 /\ IsAfter(b.current, b.prev)
                  THEN vertex_event(b, b.current) ELSE b
            b2 == [b1 EXCEPT
                    !.tx = push(@, b.current),
                    !.edge_data = Append(@, EdgeDataOf(b.current_id, ctrl_id, to_id, 1))]
        IN [b2 EXCEPT !.second = IF b.nth = 0 THEN to ELSE @,
                      !.nth = @ + 1,
                      !.prev = b.current,
                      !.current = to,
                      !.current_id = to_id]

\* quad_to without the test on the previous vertex: a vertex event at
\* every vertex whose outgoing edge goes up.
quad_to_no_prev_test(b, to, ctrl_id, to_id) ==
    IF PtEq(b.current, to) THEN b
    ELSE
        LET after == IsAfter(b.current, to)
            b1 == IF after /\ b.nth > 0
                  THEN vertex_event(b, b.current) ELSE b
            from == IF after THEN to ELSE b.current
            from_id == IF after THEN to_id ELSE b.current_id
            lower_id == IF after THEN b.current_id ELSE to_id
            b2 == [b1 EXCEPT
                    !.tx = push(@, from),
                    !.edge_data = Append(@, EdgeDataOf(from_id, ctrl_id, lower_id,
                                                       IF after THEN -1 ELSE 1))]
        IN [b2 EXCEPT !.second = IF b.nth = 0 THEN to ELSE @,
                      !.nth = @ + 1,
                      !.prev = b.current,
                      !.current = to,
                      !.current_id = to_id]

\* quad_to without the early return on a segment from a point to itself.
quad_to_no_skip(b, to, ctrl_id, to_id) ==
        LET after == IsAfter(b.current, to)
            b1 == IF after /\ b.nth > 0 /\ IsAfter(b.current, b.prev)
                  THEN vertex_event(b, b.current) ELSE b
            from == IF after THEN to ELSE b.current
            from_id == IF after THEN to_id ELSE b.current_id
            lower_id == IF after THEN b.current_id ELSE to_id
            b2 == [b1 EXCEPT
                    !.tx = push(@, from),
                    !.edge_data = Append(@, EdgeDataOf(from_id, ctrl_id, lower_id,
                                                       IF after THEN -1 ELSE 1))]
        IN [b2 EXCEPT !.second = IF b.nth = 0 THEN to ELSE @,
                      !.nth = @ + 1,
                      !.prev = b.current,
                      !.current = to,
                      !.current_id = to_id]

quad_to(b, to, ctrl_id, to_id) ==
    IF PtEq(b.current, to) THEN b
    ELSE
        LET after == IsAfter(b.current, to)
            b1 == IF after /\ b.nth > 0 /\ IsAfter(b.current, b.prev)
                  THEN vertex_event(b, b.current) ELSE b
            from == IF after THEN to ELSE b.current
            from_id == IF after THEN to_id ELSE b.current_id
            lower_id == IF after THEN b.current_id ELSE to_id
            b2 == [b1 EXCEPT
                    !.tx = push(@, from),
                    !.edge_data = Append(@, EdgeDataOf(from_id, ctrl_id, lower_id,
                                                       IF after THEN -1 ELSE 1))]
        IN [b2 EXCEPT !.second = IF b.nth = 0 THEN to ELSE @,
                      !.nth = @ + 1,
                      !.prev = b.current,
                      !.current = to,
                      !.current_id = to_id]

line_to(b, to, to_id) == quad_to(b, to, INVALID, to_id)

close(b) ==
    IF b.nth = 0 THEN b
    ELSE
        LET b1 == IF ~PtEq(b.current, b.first)
                  THEN line_to(b, b.first, b.first_id) ELSE b
            b2 == IF IsAfter(b1.first, b1.prev) /\ IsAfter(b1.first, b1.second)
                  THEN vertex_event(b1, b.first) ELSE b1
        IN [b2 EXCEPT !.nth = 0]

move_to(b, to, to_id) ==
    LET b1 == IF b.nth > 0 THEN close(b) ELSE b
    IN [b1 EXCEPT !.nth = 0, !.first = to, !.current = to,
                  !.first_id = to_id, !.current_id = to_id]

(***************************************************************************)
(* FillRule and the winding state.                                         *)
(***************************************************************************)
FillRules == {"EvenOdd", "NonZero"}

is_in(fr, winding_number) ==
    IF fr = "EvenOdd" THEN winding_number % 2 # 0 ELSE winding_number # 0

transition(fr, prev_winding, new_winding) ==
    CASE ~is_in(fr, prev_winding) /\ is_in(fr, new_winding) -> "In"
      [] is_in(fr, prev_winding) /\ ~is_in(fr, new_winding) -> "Out"
      [] OTHER -> "None"

update_winding(fr, w, edge_winding) ==
    LET number == w.number + edge_winding
        tr == transition(fr, w.number, number)
    IN [span_index |-> IF tr = "In" THEN w.span_index + 1 ELSE w.span_index,
        number |-> number,
        transition |-> tr]

\* A winding state that starts inside the filled area.
WindingStartInside == [span_index |-> -1, number |-> 1, transition |-> "None"]

WindingStart == [span_index |-> -1, number |-> 0, transition |-> "None"]

(***************************************************************************)
(* Spans.  A span's MonotoneTessellator is the list of the calls it got.   *)
(***************************************************************************)
TessCall(op, pos, id, side) == [op |-> op, pos |-> pos, id |-> id, side |-> side]

SpanOp(op, idx, pos, side) == [op |-> op, idx |-> idx, pos |-> pos, side |-> side]

InsertAt(seq, idx, v) == SubSeq(seq, 1, idx) \o <<v>> \o SubSeq(seq, idx + 1, Len(seq))

RemoveAt(seq, idx) == SubSeq(seq, 1, idx) \o SubSeq(seq, idx + 2, Len(seq))

\* Vec::insert(span_idx as usize, Span { begin(position), remove: false }).
begin_span(S, span_idx, pos, id) ==
    IF S.panic # "" THEN S
    ELSE IF span_idx < 0 \/ span_idx > Len(S.spans)
    THEN [S EXCEPT !.panic = "begin_span: insertion index out of bounds"]
    ELSE [S EXCEPT
            !.spans = InsertAt(@, span_idx,
                        [tess |-> <<TessCall("begin", pos, id, "-")>>, remove |-> FALSE]),
            !.ops = Append(@, SpanOp("begin", span_idx, pos, "-"))]

\* spans[idx].tess.vertex(pos, id, side).
tess_vertex(S, idx, pos, id, side) ==
    IF S.panic # "" THEN S
    ELSE IF idx < 0 \/ idx >= Len(S.spans)
    THEN [S EXCEPT !.panic = "span index out of bounds"]
    ELSE [S EXCEPT
            !.spans = SetAt(@, idx, [At(@, idx) EXCEPT
                        !.tess = Append(@, TessCall("vertex", pos, id, side))]),
            !.ops = Append(@, SpanOp("vertex", idx, pos, side))]

\* end_span that leaves the remove flag unset.
end_span_keep(S, span_idx, pos, id) ==
    IF S.panic # "" THEN S
    ELSE IF span_idx < 0 \/ span_idx >= Len(S.spans)
    THEN [S EXCEPT !.panic = "end_span: span index out of bounds"]
    ELSE [S EXCEPT
            !.spans = SetAt(@, span_idx, [At(@, span_idx) EXCEPT
                        !.tess = Append(@, TessCall("end", pos, id, "-"))]),
            !.ops = Append(@, SpanOp("end", span_idx, pos, "-"))]

end_span(S, span_idx, pos, id) ==
    IF S.panic # "" THEN S
    ELSE IF span_idx < 0 \/ span_idx >= Len(S.spans)
    THEN [S EXCEPT !.panic = "end_span: span index out of bounds"]
    ELSE [S EXCEPT
            !.spans = SetAt(@, span_idx, [At(@, span_idx) EXCEPT
                        !.remove = TRUE,
                        !.tess = Append(@, TessCall("end", pos, id, "-"))]),
            !.ops = Append(@, SpanOp("end", span_idx, pos, "-"))]

\* split_span that feeds the split vertex to the wrong sides.
split_span_swapped(S, span_idx, split_position, split_id, a_position, a_id) ==
    LET S1 == begin_span(S, span_idx, a_position, a_id)
        S2 == tess_vertex(S1, span_idx, split_position, split_id, "Left")
    IN tess_vertex(S2, span_idx + 1, split_position, split_id, "Right")

\* Spans::split_span, lines 145-171.
split_span(S, span_idx, split_position, split_id, a_position, a_id) ==
    LET S1 == begin_span(S, span_idx, a_position, a_id)
        S2 == tess_vertex(S1, span_idx, split_position, split_id, "Right")
    IN tess_vertex(S2, span_idx + 1, split_position, split_id, "Left")

\* merge_spans that feeds the merge vertex to both spans and ends none.
merge_spans_no_end(S, span_idx, cur_pos, cur_id, merge_position, merge_vertex) ==
    IF S.panic # "" THEN S
    ELSE IF span_idx < 0
    THEN [S EXCEPT !.panic = "merge_spans: span index out of bounds"]
    ELSE IF Len(S.spans) <= span_idx + 1 THEN S
    ELSE
        LET S1 == tess_vertex(S, span_idx, merge_position, merge_vertex, "Right")
        IN tess_vertex(S1, span_idx + 1, merge_position, merge_vertex, "Left")

\* A negative span_idx is usize::MAX after the cast: idx + 1 overflows
\* (a panic in a debug build) or wraps to 0 and spans[idx] is out of range.
merge_spans(S, span_idx, cur_pos, cur_id, merge_position, merge_vertex) ==
    IF S.panic # "" THEN S
    ELSE IF span_idx < 0
    THEN IF Len(S.spans) = 0
         THEN [S EXCEPT !.panic = "merge_spans: idx + 1 overflows (debug build)"]
         ELSE [S EXCEPT !.panic = "merge_spans: span index out of bounds"]
    ELSE IF Len(S.spans) <= span_idx + 1 THEN S
    ELSE
        LET S1 == tess_vertex(S, span_idx, merge_position, merge_vertex, "Right")
            S2 == tess_vertex(S1, span_idx + 1, merge_position, merge_vertex, "Left")
        IN end_span(S2, span_idx, cur_pos, cur_id)

RECURSIVE Retained(_)
Retained(sp) ==
    IF sp = <<>> THEN <<>>
    ELSE IF Head(sp).remove THEN Retained(Tail(sp))
    ELSE <<Head(sp)>> \o Retained(Tail(sp))

cleanup_spans(S) == IF S.panic # "" THEN S ELSE [S EXCEPT !.spans = Retained(@)]

(***************************************************************************)
(* Active and pending edges.                                               *)
(***************************************************************************)
\* The f32 angle of a PendingEdge is kept as the vector it is the angle
\* of: atan2 orders vectors by direction, compared here exactly.
AngleClass(d) ==
    IF d.y < 0 THEN 0
    ELSE IF d.y > 0 THEN 2
    ELSE IF d.x >= 0 THEN 1 ELSE 3

\* angle_from_x_axis(a) < angle_from_x_axis(b).
AngleLess(a, b) ==
    IF AngleClass(a) # AngleClass(b) THEN AngleClass(a) < AngleClass(b)
    ELSE IF AngleClass(a) \in {1, 3} THEN FALSE
    ELSE a.x * b.y - a.y * b.x > 0

PendingEdgeOf(P, to, ctrl, from_id, to_id, w) ==
    [to |-> to, ctrl |-> ctrl,
     angle |-> [x |-> to.x - P.x, y |-> to.y - P.y],
     from_id |-> from_id, ctrl_id |-> INVALID, to_id |-> to_id,
     winding |-> w]

\* LineSegment::solve_x_for_y(y) compared with x: "lt", "eq" or "gt".
\* t = (y - from.y) / (to.y - from.y), or 0 for a horizontal segment, and
\* x(t) = from.x + (to.x - from.x) * t, compared as a rational.
SolveXForYCmp(e, y, x) ==
    LET dy == e.to.y - e.from.y
        num == (e.from.x - x) * dy + (y - e.from.y) * (e.to.x - e.from.x)
    IN IF dy = 0
       THEN (IF e.from.x = x THEN "eq" ELSE IF e.from.x > x THEN "gt" ELSE "lt")
       ELSE IF num = 0 THEN "eq"
       ELSE IF (num > 0) = (dy > 0) THEN "gt" ELSE "lt"

\* ActiveEdge::solve_x_for_y(current_position.y) against current_position.x.
solve_x_for_y(e, P) == SolveXForYCmp(e, P.y, P.x)

\* sort_by(|a, b| b.angle.partial_cmp(&a.angle)): a stable sort by
\* descending angle.  x goes before the first element of a smaller angle.
RECURSIVE InsertByAngle(_, _)
InsertByAngle(sorted, x) ==
    IF sorted = <<>> THEN <<x>>
    ELSE IF AngleLess(Head(sorted).angle, x.angle) THEN <<x>> \o sorted
    ELSE <<Head(sorted)>> \o InsertByAngle(Tail(sorted), x)

RECURSIVE SortByAngle(_, _)
SortByAngle(sorted, rest) ==
    IF rest = <<>> THEN sorted
    ELSE SortByAngle(InsertByAngle(sorted, Head(rest)), Tail(rest))

\* sort_edges_below that leaves the pending edges in sibling order.
sort_edges_below_unsorted(below) == below

sort_edges_below(below) == SortByAngle(<<>>, below)

(***************************************************************************)
(* FillTessellator::process_events.  S is the function's working state:    *)
(* the tessellator's active edges, spans and pending edges, its locals,    *)
(* and a record of what it did (kinds, ops).  A Rust panic (an index out   *)
(* of bounds, unwrap on None, usize underflow) is S.panic: every step      *)
(* after it is skipped.                                                    *)
(***************************************************************************)
NONE == -1

ProcessStart(edges, sp, below) ==
    [edges |-> edges, spans |-> sp, below |-> below,
     w |-> WindingStart, wbp_some |-> FALSE, wbp |-> WindingStart,
     above_start |-> Len(edges), above_end |-> Len(edges),
     connecting |-> FALSE, fta |-> TRUE,
     pending_merge |-> NONE, pending_right |-> NONE, prev_in |-> NONE,
     merges |-> <<>>, ends |-> <<>>, splits |-> <<>>,
     below_start |-> 0, below_end |-> 0, below_prev_in |-> NONE,
     nbelow |-> Len(below),
     split_above |-> NONE, split_len |-> 0,
     panic |-> "", dbg |-> FALSE, kinds |-> {}, ops |-> <<>>]

\* The match without its first arm: an In transition is not remembered.
ConnectingTransitionNoIn(S, i) ==
    LET tr == S.w.transition
        S1 ==
          CASE tr = "Out" /\ S.fta ->
                 IF S.below = <<>>
                 THEN [S EXCEPT !.pending_merge = i]
                 ELSE [S EXCEPT !.pending_right = i]
            [] tr = "Out" /\ ~S.fta ->
                 IF S.prev_in = NONE
                 THEN [S EXCEPT !.panic = "prev_transition_in.unwrap() on None"]
                 ELSE S
            [] OTHER -> S
    IN IF tr # "None" THEN [S1 EXCEPT !.fta = FALSE] ELSE S1

\* The match on (winding.transition, first_transition_above), lines 454-486.
ConnectingTransition(S, i) ==
    LET tr == S.w.transition
        S1 ==
          CASE tr = "In" -> [S EXCEPT !.prev_in = i]
            [] tr = "Out" /\ S.fta ->
                 IF S.below = <<>>
                 THEN [S EXCEPT !.pending_merge = i]
                 ELSE [S EXCEPT !.pending_right = i]
            [] tr = "Out" /\ ~S.fta ->
                 IF S.prev_in = NONE
                 THEN [S EXCEPT !.panic = "prev_transition_in.unwrap() on None"]
                 ELSE IF S.w.span_index < Len(S.spans)
                 THEN [S EXCEPT !.ends = Append(@, S.w.span_index),
                                !.w.span_index = @ + 1,
                                !.kinds = @ \cup {"end"}]
                 ELSE [S EXCEPT !.kinds = @ \cup {"end_skipped"}]
            [] OTHER -> S
    IN IF tr # "None" THEN [S1 EXCEPT !.fta = FALSE] ELSE S1

\* The walk over the active edges, lines 385-487, from index i.
RECURSIVE ActiveLoop(_, _, _, _, _)
ActiveLoop(S, i, P, cv, fr) ==
    IF i >= Len(S.edges) \/ S.panic # "" THEN S
    ELSE
      LET e == At(S.edges, i) IN
      IF e.is_merge
      THEN IF S.connecting
           THEN ActiveLoop(
                  [S EXCEPT !.merges = Append(@, <<S.w.span_index, i>>),
                            !.edges = SetAt(@, i, [e EXCEPT !.to = P, !.to_id = cv]),
                            !.w.span_index = @ + 1],
                  i + 1, P, cv, fr)
           ELSE ActiveLoop([S EXCEPT !.w.span_index = @ + 1], i + 1, P, cv, fr)
      ELSE
        LET ends_here == PtEq(P, e.to)
            cmp == IF ends_here THEN "-" ELSE solve_x_for_y(e, P)
            on_edge == cmp = "eq"
            S1 == [S EXCEPT !.connecting = @ \/ ends_here \/ on_edge,
                            !.splits = IF on_edge THEN Append(@, i) ELSE @]
        IN IF cmp = "gt" THEN [S1 EXCEPT !.above_end = i]
           ELSE
             LET S2 == IF ~S.connecting /\ S1.connecting
                       THEN [S1 EXCEPT !.wbp_some = TRUE, !.wbp = S1.w,
                                       !.above_start = i]
                       ELSE S1
                 S3 == [S2 EXCEPT !.w = update_winding(fr, S2.w, e.winding)]
             IN IF ~S3.connecting THEN ActiveLoop(S3, i + 1, P, cv, fr)
                ELSE ActiveLoop(ConnectingTransition(S3, i), i + 1, P, cv, fr)

\* for (span_index, edge_idx) in merges_to_resolve, lines 489-512.
RECURSIVE ResolveMerges(_, _, _, _)
ResolveMerges(S, k, P, cv) ==
    IF k > Len(S.merges) \/ S.panic # "" THEN S
    ELSE
      LET span_index == S.merges[k][1]
          edge_idx == S.merges[k][2]
          e == At(S.edges, edge_idx)
          S1 == merge_spans(S, span_index, P, cv, e.from, e.from_id)
          S2 == IF S1.panic # "" THEN S1
                ELSE [S1 EXCEPT !.edges = SetAt(@, edge_idx, [e EXCEPT !.is_merge = FALSE]),
                                !.kinds = @ \cup {"resolve"}]
      IN ResolveMerges(S2, k + 1, P, cv)

\* for span_index in spans_to_end, lines 514-521.
RECURSIVE EndSpans(_, _, _, _)
EndSpans(S, k, P, cv) ==
    IF k > Len(S.ends) \/ S.panic # "" THEN S
    ELSE EndSpans(end_span(S, S.ends[k], P, cv), k + 1, P, cv)

\* for edge_idx in edges_to_split, lines 525-542.
RECURSIVE SplitEdges(_, _, _, _)
SplitEdges(S, k, P, cv) ==
    IF k > Len(S.splits) \/ S.panic # "" THEN S
    ELSE
      LET edge_idx == S.splits[k]
          e == At(S.edges, edge_idx)
          S1 == [S EXCEPT
                  !.below = Append(@, PendingEdgeOf(P, e.to, NanPoint, cv, e.to_id, e.winding)),
                  !.edges = SetAt(@, edge_idx, [e EXCEPT !.to = P, !.to_id = cv]),
                  !.kinds = @ \cup {"edge_split"}]
      IN SplitEdges(S1, k + 1, P, cv)

\* Lines 544-551: the above range, the winding before the point, the sort.
FixUp(S) ==
    IF S.panic # "" THEN S
    ELSE [S EXCEPT
            !.above_start = IF S.above_start < S.above_end THEN @ ELSE S.above_end,
            !.w = IF S.wbp_some THEN S.wbp ELSE S.w,
            !.below = sort_edges_below(@)]

\* The merge event left out: the edge stays as it is.
PendingMergeSkipped(S, cv) == S

\* if let Some(in_idx) = pending_merge, lines 553-574.
PendingMerge(S, cv) ==
    IF S.panic # "" \/ S.pending_merge = NONE THEN S
    ELSE
      LET e == At(S.edges, S.pending_merge) IN
      [S EXCEPT
         !.edges = SetAt(@, S.pending_merge,
                     [e EXCEPT !.is_merge = TRUE, !.from = e.to, !.ctrl = e.to,
                               !.winding = 0, !.from_id = cv,
                               !.ctrl_id = INVALID, !.to_id = INVALID]),
         !.kinds = @ \cup {"merge"}]

\* The split event never taken: all the pending edges are left to the
\* last loop.
SplitEventNever(S, P, cv, fr) ==
    IF S.panic # "" THEN [S EXCEPT !.below_start = 0, !.below_end = 0]
    ELSE [S EXCEPT !.below_start = 0, !.below_end = Len(S.below)]

\* The split event, lines 580-652.  below_start and below_end are the
\* range of pending edges left to the last loop.
SplitEvent(S, P, cv, fr) ==
    IF S.panic # "" THEN [S EXCEPT !.below_start = 0, !.below_end = 0]
    ELSE IF ~(is_in(fr, S.w.number)
              /\ S.above_start = S.above_end
              /\ Len(S.below) >= 2)
    THEN [S EXCEPT !.below_start = 0, !.below_end = Len(S.below)]
    ELSE IF S.above_start = 0
    THEN [S EXCEPT !.panic = "split: above.start - 1 underflows",
                   !.split_above = S.above_start, !.split_len = Len(S.edges),
                   !.below_start = 0, !.below_end = 0]
    ELSE
      LET edge_above == S.above_start - 1
          e == At(S.edges, edge_above)
          upper_pos == e.from
          upper_id == e.from_id
          si == S.w.span_index
          S1 == IF e.is_merge
                THEN LET A == tess_vertex(S, si - 1, upper_pos, upper_id, "Right")
                         B == tess_vertex(A, si - 1, P, cv, "Right")
                         C == tess_vertex(B, si, upper_pos, upper_id, "Left")
                         D == tess_vertex(C, si, P, cv, "Left")
                     IN IF D.panic # "" THEN D
                        ELSE [D EXCEPT !.edges = RemoveAt(@, edge_above),
                                       !.above_start = @ - 1,
                                       !.above_end = @ - 1,
                                       !.kinds = @ \cup {"merge_split"}]
                ELSE LET A == split_span(S, si, P, cv, upper_pos, upper_id)
                     IN IF A.panic # "" THEN A
                        ELSE [A EXCEPT !.kinds = @ \cup {"split"}]
      IN [S1 EXCEPT !.w.span_index = @ + 1,
                    !.split_above = S.above_start, !.split_len = Len(S.edges),
                    !.below_start = 1,
                    !.below_end = Len(S.below) - 1]

\* The walk over the pending edges, lines 657-734, from index i.
RECURSIVE BelowLoop(_, _, _, _, _)
BelowLoop(S, i, P, cv, fr) ==
    IF i >= S.below_end \/ S.panic # "" THEN S
    ELSE
      LET pe == At(S.below, i)
          S1 == [S EXCEPT !.w = update_winding(fr, S.w, pe.winding)]
      IN IF S1.pending_right # NONE
         THEN LET A == tess_vertex(S1, S1.w.span_index, P, cv, "Right")
              IN BelowLoop(
                   [A EXCEPT !.dbg = @ \/ S1.w.transition # "Out",
                             !.pending_right = NONE,
                             !.kinds = IF A.panic = "" THEN @ \cup {"right"} ELSE @],
                   i + 1, P, cv, fr)
         ELSE
           CASE S1.w.transition = "In" ->
                  IF i = Len(S1.below) - 1
                  THEN LET A == tess_vertex(S1, S1.w.span_index, P, cv, "Left")
                       IN BelowLoop(
                            [A EXCEPT !.kinds = IF A.panic = "" THEN @ \cup {"left"} ELSE @],
                            i + 1, P, cv, fr)
                  ELSE BelowLoop([S1 EXCEPT !.below_prev_in = i], i + 1, P, cv, fr)
             [] S1.w.transition = "Out" ->
                  IF S1.below_prev_in # NONE
                  THEN LET A == begin_span(S1, S1.w.span_index, P, cv)
                       IN BelowLoop(
                            [A EXCEPT !.kinds = IF A.panic = "" THEN @ \cup {"start"} ELSE @],
                            i + 1, P, cv, fr)
                  ELSE BelowLoop(S1, i + 1, P, cv, fr)
             [] OTHER -> BelowLoop(S1, i + 1, P, cv, fr)

ActiveEdgeOf(P, pe) ==
    [from |-> P, to |-> pe.to, ctrl |-> pe.ctrl, winding |-> pe.winding,
     is_merge |-> FALSE, from_id |-> pe.from_id, ctrl_id |-> pe.ctrl_id,
     to_id |-> pe.to_id]

\* Lines 753-760: remove count entries from rm_index on, keeping merges.
RECURSIVE RemoveAbove(_, _, _)
RemoveAbove(edges, rm_index, count) ==
    IF count = 0 THEN edges
    ELSE IF At(edges, rm_index).is_merge
    THEN RemoveAbove(edges, rm_index + 1, count - 1)
    ELSE RemoveAbove(RemoveAt(edges, rm_index), rm_index, count - 1)

\* update_active_edges that also removes the merge placeholders of the
\* above range.
update_active_edges_drop_merges(S, P) ==
    IF S.panic # "" THEN S
    ELSE
      LET kept == SubSeq(S.edges, 1, S.above_start)
                    \o SubSeq(S.edges, S.above_end + 1, Len(S.edges))
          new == [k \in 1..Len(S.below) |-> ActiveEdgeOf(P, S.below[k])]
      IN [S EXCEPT
            !.edges = SubSeq(kept, 1, S.above_start) \o new
                        \o SubSeq(kept, S.above_start + 1, Len(kept)),
            !.below = <<>>]

\* update_active_edges that inserts the pending edges and removes nothing.
update_active_edges_keep_above(S, P) ==
    IF S.panic # "" THEN S
    ELSE
      LET kept == S.edges
          new == [k \in 1..Len(S.below) |-> ActiveEdgeOf(P, S.below[k])]
      IN [S EXCEPT
            !.edges = SubSeq(kept, 1, S.above_start) \o new
                        \o SubSeq(kept, S.above_start + 1, Len(kept)),
            !.below = <<>>]

\* update_active_edges(above), lines 749-778.
update_active_edges(S, P) ==
    IF S.panic # "" THEN S
    ELSE
      LET kept == RemoveAbove(S.edges, S.above_start, S.above_end - S.above_start)
          new == [k \in 1..Len(S.below) |-> ActiveEdgeOf(P, S.below[k])]
      IN [S EXCEPT
            !.edges = SubSeq(kept, 1, S.above_start) \o new
                        \o SubSeq(kept, S.above_start + 1, Len(kept)),
            !.below = <<>>]

\* process_events(current_vertex, output) at current_position P.
process_events(edges, sp, below, P, cv, fr) ==
    LET S0 == ProcessStart(edges, sp, below)
        S1 == ActiveLoop(S0, 0, P, cv, fr)
        S2 == ResolveMerges(S1, 1, P, cv)
        S3 == EndSpans(S2, 1, P, cv)
        S4 == cleanup_spans(S3)
        S5 == SplitEdges(S4, 1, P, cv)
        S6 == FixUp(S5)
        S7 == PendingMerge(S6, cv)
        S8 == SplitEvent(S7, P, cv, fr)
        S9 == BelowLoop(S8, S8.below_start, P, cv, fr)
    IN update_active_edges(S9, P)

(***************************************************************************)
(* tessellate_path: the state of a FillTessellator and of the geometry     *)
(* builder it writes to.                                                   *)
(***************************************************************************)
OutNew == [begun |-> 0, ended |-> 0, vertices |-> <<>>]

EvNew ==
    [kinds |-> {}, ops |-> <<>>, panic |-> "", dbg |-> FALSE,
     above_start |-> 0, above_end |-> 0, w |-> WindingStart,
     merges |-> <<>>, ends |-> <<>>, splits |-> <<>>,
     pending_merge |-> NONE, nbelow |-> 0,
     split_above |-> NONE, split_len |-> 0]

\* The instance has been called once; kinds are the event branches the
\* current call has taken.
RunNew == [calls |-> 1, kinds |-> {}]

EvOf(S) ==
    [kinds |-> S.kinds, ops |-> S.ops, panic |-> S.panic, dbg |-> S.dbg,
     above_start |-> S.above_start, above_end |-> S.above_end, w |-> S.w,
     merges |-> S.merges, ends |-> S.ends, splits |-> S.splits,
     pending_merge |-> S.pending_merge, nbelow |-> S.nbelow,
     split_above |-> S.split_above, split_len |-> S.split_len]

\* The sibling walk of tessellator_loop, lines 303-336: the pending edges
\* of the events at P that carry an edge.
RECURSIVE GatherBelow(_, _, _, _, _, _, _)
GatherBelow(below, sibs, k, p, ed, P, vertex_id) ==
    IF k > Len(sibs) THEN below
    ELSE
      LET edge == At(ed, sibs[k]) IN
      IF edge.to = INVALID
      THEN GatherBelow(below, sibs, k + 1, p, ed, P, vertex_id)
      ELSE GatherBelow(
             Append(below,
               PendingEdgeOf(P, PathAt(p, edge.to),
                             IF edge.ctrl # INVALID THEN PathAt(p, edge.ctrl) ELSE NanPoint,
                             vertex_id, INVALID, edge.winding)),
             sibs, k + 1, p, ed, P, vertex_id)

PipeIdle ==
    /\ path = <<>>
    /\ cursor = 1
    /\ tb = BuilderNew
    /\ events = TraversalNew
    /\ edge_data = <<>>
    /\ fill_rule = "EvenOdd"
    /\ active = <<>>
    /\ spans = <<>>
    /\ edges_below = <<>>
    /\ current_position = Pt(F32_MIN, F32_MIN)
    /\ current_event = 0
    /\ out = OutNew
    /\ ev = EvNew
    /\ run = RunNew
    /\ pc = "idle"

(***************************************************************************)
(* The Traversal on its own: any interleaving of push, sort and clear.     *)
(* tx_obs records the last operation, the number of sort calls since the   *)
(* last push or clear (capped at 2), whether a sort has been followed by   *)
(* a push since the last clear, and how the last sort ended.               *)
(***************************************************************************)
ObsInit == [op |-> "new", nsort |-> 0, resorted |-> FALSE,
            status |-> "ok", iters |-> 0]

InitTraversal ==
    /\ tx = TraversalNew
    /\ tx_obs = ObsInit
    /\ PipeIdle

Push ==
    /\ tx_obs.status = "ok"
    /\ Len(tx.events) < MaxEvents
    /\ \E p \in TxPositions :
        /\ tx' = push(tx, p)
        /\ tx_obs' = [tx_obs EXCEPT !.op = "push", !.nsort = 0,
                                    !.resorted = (tx_obs.resorted \/ tx_obs.nsort > 0)]
    /\ UNCHANGED pipevars

Sort ==
    /\ tx_obs.status = "ok"
    /\ LET r == SortRun(tx) IN
        /\ tx' = r.t
        /\ tx_obs' = [tx_obs EXCEPT
                        !.op = "sort",
                        !.nsort = IF @ < 2 THEN @ + 1 ELSE @,
                        !.status = r.status,
                        !.iters = Len(tx.events) * Len(tx.events) - r.iter_count]
    /\ UNCHANGED pipevars

Clear ==
    /\ tx_obs.status = "ok"
    /\ tx_obs.op # "new"
    /\ tx' = clear(tx)
    /\ tx_obs' = ObsInit
    /\ UNCHANGED pipevars

NextTraversal == Push \/ Sort \/ Clear

SpecTraversal == InitTraversal /\ [][NextTraversal]_vars

(***************************************************************************)
(* Properties of a sorted Traversal.                                       *)
(***************************************************************************)
\* Following next-event from first_id, positions strictly increase.
HeadsIncrease(t) ==
    LET h == Heads(t) IN
    \A i \in 1..(Len(h) - 1) :
        is_after(position(t, h[i + 1]), position(t, h[i]))

\* Every event on a head's sibling chain has the head's position.
SiblingsShare(t) ==
    LET h == Heads(t) IN
    \A i \in 1..Len(h) :
        LET sib == Siblings(t, h[i]) IN
        \A j \in 1..Len(sib) : position(t, sib[j]) = position(t, h[i])

RECURSIVE Visited(_, _, _)
Visited(t, h, i) ==
    IF i > Len(h) THEN <<>>
    ELSE Siblings(t, h[i]) \o Visited(t, h, i + 1)

\* The ids met by the walk over heads and, at each head, its siblings.
VisitOrder(t) == Visited(t, Heads(t), 1)

\* Every pushed event is met exactly once.
EachEventOnce(t) ==
    LET v == VisitOrder(t) IN
    /\ Len(v) = Len(t.events)
    /\ { v[i] : i \in 1..Len(v) } = 0..(Len(t.events) - 1)

\* Each distinct position has exactly one head.
OneHeadPerPosition(t) ==
    LET h == Heads(t) IN
    /\ \A i, j \in 1..Len(h) : position(t, h[i]) = position(t, h[j]) => i = j
    /\ { position(t, h[i]) : i \in 1..Len(h) }
         = { t.events[k].position : k \in 1..Len(t.events) }

\* Both kinds of chain end in an out-of-range id (no walk is cut short).
ChainsTerminate(t) ==
    LET h == Heads(t) IN
    /\ Len(h) <= Len(t.events)
    /\ Len(h) > 0 => ~valid_id(t, next_id(t, h[Len(h)]))
    /\ \A i \in 1..Len(h) :
        LET sib == Siblings(t, h[i]) IN
        /\ Len(sib) <= Len(t.events)
        /\ ~valid_id(t, next_sibling_id(t, sib[Len(sib)]))

\* The state right after the first sort() of events pushed on a fresh or
\* cleared Traversal.
FirstSortDone == tx_obs.op = "sort" /\ ~tx_obs.resorted

\* C1: after push* then sort() on a fresh or cleared Traversal, next-event
\* from first_id visits strictly increasing positions and every sibling of
\* a visited head has the head's position.
C1_SortedOrder ==
    FirstSortDone =>
        /\ tx_obs.status = "ok"
        /\ HeadsIncrease(tx)
        /\ SiblingsShare(tx)

\* A sorted list of five events whose first pushed event was not the
\* smallest, with three distinct positions and so with siblings.
C1_Witness ==
    /\ FirstSortDone
    /\ Len(tx.events) = 5
    /\ tx.first # 0
    /\ Len(Heads(tx)) = 3

\* C2: after sort() every pushed event is reached exactly once through the
\* next-event chain and the sibling chains, each distinct position has one
\* head, and every chain ends in an out-of-range id.
C2_EveryEventOnce ==
    FirstSortDone =>
        /\ EachEventOnce(tx)
        /\ OneHeadPerPosition(tx)
        /\ ChainsTerminate(tx)

\* A sorted list where a head has at least three events on its chain and
\* the list was reordered.
C2_Witness ==
    /\ FirstSortDone
    /\ Len(tx.events) = 5
    /\ tx.first # 0
    /\ \E i \in 1..Len(Heads(tx)) : Len(Siblings(tx, Heads(tx)[i])) >= 3

\* C3 as stated: after any interleaving of push and sort that ends with
\* sort(), the chain is strictly increasing and holds every event once.
C3_SortAfterAnyInterleaving ==
    tx_obs.op = "sort" =>
        /\ tx_obs.status = "ok"
        /\ HeadsIncrease(tx)
        /\ EachEventOnce(tx)

\* C4: sort() ends within n*n iterations of its main loop: the assertion
\* iter_count > 0 never fails.
C4_SortTerminates ==
    tx_obs.op = "sort" =>
        /\ tx_obs.status # "assert"
        /\ tx_obs.iters <= Len(tx.events) * Len(tx.events)

\* A sort of five events, all at one position, that ran its loop.
C4_Witness ==
    /\ tx_obs.op = "sort"
    /\ tx_obs.status = "ok"
    /\ Len(tx.events) = 5
    /\ Len(Heads(tx)) = 1
    /\ tx_obs.iters >= 4

\* C5: a second sort() with no push in between changes neither first nor
\* any link.
C5_SortIdempotent ==
    [][(tx_obs.op = "sort" /\ tx_obs'.op = "sort") => tx' = tx]_vars

\* Two sort() calls in a row on a list the first call reordered.
C5_Witness ==
    /\ tx_obs.op = "sort"
    /\ tx_obs.nsort = 2
    /\ tx.first # 0
    /\ Len(tx.events) >= 3

(***************************************************************************)
(* The input paths.                                                        *)
(***************************************************************************)
MaxX == 2
MaxY == 2
MaxEdges == 3

Grid == { Pt(px, py) : px \in 0..MaxX, py \in 0..MaxY }

\* move_to(f[1]), line_to(f[2]), ..., line_to(f[n]), close.
Polygon(f, n) ==
    <<MoveToEv(f[1])>> \o [i \in 1..(n - 1) |-> LineToEv(f[i + 1])] \o <<CloseEv>>

\* Every closed sub-path of up to MaxEdges line_to's over the grid.
GridPaths ==
    UNION { { Polygon(f, n) : f \in [1..n -> Grid] } : n \in 1..(MaxEdges + 1) }

PolygonOf(pts) == Polygon(pts, Len(pts))

\* new_tess_triangle, lines 1250-1270.
TrianglePath == PolygonOf(<<Pt(0, 0), Pt(5, 1), Pt(3, 5)>>)

\* new_tess0, lines 1272-1297.
SquaresPath ==
    PolygonOf(<<Pt(0, 0), Pt(5, 0), Pt(5, 5), Pt(0, 5)>>)
      \o PolygonOf(<<Pt(1, 1), Pt(4, 1), Pt(4, 4), Pt(1, 4)>>)

StarPoints ==
    <<Pt(0, 0), Pt(5, -5), Pt(10, 0), Pt(9, 5), Pt(10, 10), Pt(5, 6),
      Pt(0, 10), Pt(1, 5)>>

\* The star of new_tess1 alone.
StarPath == PolygonOf(StarPoints)

\* new_tess1, lines 1299-1330.
StarAndTrianglePath ==
    PolygonOf(StarPoints) \o PolygonOf(<<Pt(20, -1), Pt(25, 1), Pt(25, 9)>>)

\* new_tess_merge, lines 1332-1358.
MergePath ==
    PolygonOf(<<Pt(0, 0), Pt(5, 5), Pt(5, 1), Pt(10, 6), Pt(11, 2), Pt(11, 10),
                Pt(0, 9)>>)

\* The path of the comment on line 1360: M 0 0 L 1 1 0 2 Z M 2 0 1 1 2 2 Z.
TouchingPath ==
    PolygonOf(<<Pt(0, 0), Pt(1, 1), Pt(0, 2)>>)
      \o PolygonOf(<<Pt(2, 0), Pt(1, 1), Pt(2, 2)>>)

\* A merge vertex right above a split vertex.
HourglassPath ==
    PolygonOf(<<Pt(0, 0), Pt(2, 2), Pt(4, 0), Pt(4, 8), Pt(2, 5), Pt(0, 8)>>)

\* Sub-paths left open (the builder closes them), a quadratic segment, a
\* segment from a point to itself, a lone move_to, the empty path.
OpenPath ==
    <<MoveToEv(Pt(0, 0)), LineToEv(Pt(4, 1)), LineToEv(Pt(2, 3)),
      MoveToEv(Pt(6, 0)), LineToEv(Pt(8, 2)), LineToEv(Pt(5, 2))>>

QuadPath ==
    <<MoveToEv(Pt(0, 0)), QuadraticToEv(Pt(3, 0), Pt(3, 3)), LineToEv(Pt(0, 3)),
      CloseEv>>

QuadUpPath ==
    <<MoveToEv(Pt(3, 3)), QuadraticToEv(Pt(3, 0), Pt(0, 0)), LineToEv(Pt(0, 3)),
      CloseEv>>

\* Two triangles that end at one vertex.
TwoEndsPath ==
    PolygonOf(<<Pt(0, 1), Pt(1, 0), Pt(2, 4)>>)
      \o PolygonOf(<<Pt(3, 0), Pt(4, 1), Pt(2, 4)>>)

\* A triangle with its right vertex at (4,2) and, inside it, a triangle of
\* the same orientation with its upper vertex at (4,2).
InnerTouchPath ==
    PolygonOf(<<Pt(0, 0), Pt(4, 2), Pt(0, 8)>>)
      \o PolygonOf(<<Pt(4, 2), Pt(1, 5), Pt(1, 3)>>)

\* A triangle whose left vertex (4,4) lies on the right edge of another.
TJunctionPath ==
    PolygonOf(<<Pt(4, 0), Pt(4, 8), Pt(0, 4)>>)
      \o PolygonOf(<<Pt(4, 4), Pt(6, 3), Pt(6, 5)>>)

\* A triangle inside another, with its right vertex (4,4) on the right
\* edge of the outer one.
TJunctionInPath ==
    PolygonOf(<<Pt(4, 0), Pt(4, 8), Pt(0, 4)>>)
      \o PolygonOf(<<Pt(4, 4), Pt(2, 3), Pt(2, 5)>>)

\* A triangle with a horizontal upper edge and, inside it, a triangle with
\* its upper vertex (2,0) on that edge.
TJunctionFlatPath ==
    PolygonOf(<<Pt(0, 0), Pt(4, 0), Pt(2, 4)>>)
      \o PolygonOf(<<Pt(2, 0), Pt(3, 2), Pt(1, 2)>>)

\* A triangle and, inside it, two triangles that hang from the point (8,2).
SplitFourPath ==
    PolygonOf(<<Pt(8, 0), Pt(16, 12), Pt(0, 13)>>)
      \o PolygonOf(<<Pt(8, 2), Pt(6, 5), Pt(6, 4)>>)
      \o PolygonOf(<<Pt(8, 2), Pt(10, 4), Pt(10, 5)>>)

\* The same with a third triangle between the two.
SplitSixPath ==
    SplitFourPath \o PolygonOf(<<Pt(8, 2), Pt(9, 6), Pt(7, 5)>>)

\* A merge vertex right above a split vertex from which six edges descend:
\* two triangles hang from (4,10) in the notch under it.
HourglassSixPath ==
    PolygonOf(<<Pt(0, 0), Pt(4, 4), Pt(8, 0), Pt(8, 16), Pt(4, 10), Pt(0, 16)>>)
      \o PolygonOf(<<Pt(4, 10), Pt(3, 13), Pt(3, 14)>>)
      \o PolygonOf(<<Pt(4, 10), Pt(5, 14), Pt(5, 13)>>)

\* A path whose second and fourth edge cross.
CrossingPath == PolygonOf(<<Pt(0, 0), Pt(0, 1), Pt(1, 0), Pt(1, 2)>>)

ExtraPaths ==
    {TrianglePath, SquaresPath, StarPath, StarAndTrianglePath, MergePath,
     TouchingPath, HourglassPath, OpenPath, QuadPath, QuadUpPath,
     TwoEndsPath, InnerTouchPath, TJunctionPath, TJunctionInPath,
     TJunctionFlatPath, SplitFourPath, SplitSixPath, HourglassSixPath,
     <<>>, <<MoveToEv(Pt(1, 1))>>,
     <<MoveToEv(Pt(1, 1)), LineToEv(Pt(1, 1))>>}

Paths == GridPaths \cup ExtraPaths

(***************************************************************************)
(* tessellate_path on one path: the builder's walk over the path events,   *)
(* build() and begin_geometry, the sweep loop event by event, and          *)
(* end_geometry.                                                           *)
(***************************************************************************)
Init ==
    /\ tx = TraversalNew
    /\ tx_obs = ObsInit
    /\ path \in Paths
    /\ cursor = 1
    /\ tb = BuilderNew
    /\ events = TraversalNew
    /\ edge_data = <<>>
    /\ fill_rule = "EvenOdd"
    /\ active = <<>>
    /\ spans = <<>>
    /\ edges_below = <<>>
    /\ current_position = Pt(F32_MIN, F32_MIN)
    /\ current_event = 0
    /\ out = OutNew
    /\ ev = EvNew
    /\ run = RunNew
    /\ pc = "build"

sweepvars == <<events, edge_data, fill_rule, active, spans, edges_below,
               current_position, current_event, out, ev, run>>

AtEvent(kind) == pc = "build" /\ cursor <= Len(path) /\ path[cursor].k = kind

\* PathEvent::MoveTo(to) => self.move_to(to, cursor.vertex).
MoveTo ==
    /\ AtEvent("MoveTo")
    /\ tb' = move_to(tb, path[cursor].to, CursorVertex(path, cursor))
    /\ cursor' = cursor + 1
    /\ UNCHANGED <<tx, tx_obs, path, pc, sweepvars>>

\* PathEvent::LineTo(to) => self.line_to(to, cursor.vertex).
LineTo ==
    /\ AtEvent("LineTo")
    /\ tb' = line_to(tb, path[cursor].to, CursorVertex(path, cursor))
    /\ cursor' = cursor + 1
    /\ UNCHANGED <<tx, tx_obs, path, pc, sweepvars>>

\* PathEvent::QuadraticTo(ctrl, to) =>
\*     self.quad_to(to, cursor.vertex, cursor.vertex + 1).
QuadraticTo ==
    /\ AtEvent("QuadraticTo")
    /\ tb' = quad_to(tb, path[cursor].to, CursorVertex(path, cursor),
                     CursorVertex(path, cursor) + 1)
    /\ cursor' = cursor + 1
    /\ UNCHANGED <<tx, tx_obs, path, pc, sweepvars>>

\* PathEvent::Close => self.close().
Close ==
    /\ AtEvent("Close")
    /\ tb' = close(tb)
    /\ cursor' = cursor + 1
    /\ UNCHANGED <<tx, tx_obs, path, pc, sweepvars>>

\* The end of set_path (its last close), build() (close, sort) and
\* begin_geometry, lines 269-275 and 1072, 1164-1169.
Tessellate ==
    /\ pc = "build"
    /\ cursor > Len(path)
    /\ \E fr \in FillRules :
        LET b == close(close(tb))
            r == SortRun(b.tx)
        IN /\ fill_rule' = fr
           /\ tb' = [b EXCEPT !.tx = r.t]
           /\ events' = r.t
           /\ edge_data' = b.edge_data
           /\ current_event' = r.t.first
           /\ IF r.status = "ok"
              THEN /\ out' = [out EXCEPT !.begun = @ + 1]
                   /\ pc' = "sweep"
              ELSE /\ out' = out
                   /\ pc' = "panic"
    /\ UNCHANGED <<tx, tx_obs, path, cursor, active, spans, edges_below,
                   current_position, ev, run>>

\* One iteration of tessellator_loop, lines 299-344.
SweepEvent ==
    /\ pc = "sweep"
    /\ valid_id(events, current_event)
    /\ LET P == position(events, current_event)
           vertex_id == Len(out.vertices)
           below == GatherBelow(edges_below, Siblings(events, current_event), 1,
                                path, edge_data, P, vertex_id)
           S == process_events(active, spans, below, P, vertex_id, fill_rule)
       IN /\ current_position' = P
          /\ out' = [out EXCEPT !.vertices = Append(@, P)]
          /\ ev' = EvOf(S)
          /\ run' = [run EXCEPT !.kinds = @ \cup S.kinds]
          /\ IF S.panic # ""
             THEN /\ pc' = "panic"
                  /\ UNCHANGED <<active, spans, current_event>>
                  /\ edges_below' = below
             ELSE /\ pc' = "sweep"
                  /\ active' = S.edges
                  /\ spans' = S.spans
                  /\ edges_below' = S.below
                  /\ current_event' = next_id(events, current_event)
    /\ UNCHANGED <<tx, tx_obs, path, cursor, tb, events, edge_data, fill_rule>>

\* builder.end_geometry(), line 279.
EndGeometry ==
    /\ pc = "sweep"
    /\ ~valid_id(events, current_event)
    /\ out' = [out EXCEPT !.ended = @ + 1]
    /\ pc' = "done"
    /\ UNCHANGED <<tx, tx_obs, path, cursor, tb, events, edge_data, fill_rule,
                   active, spans, edges_below, current_position, current_event,
                   ev, run>>

Next ==
    \/ MoveTo
    \/ LineTo
    \/ QuadraticTo
    \/ Close
    \/ Tessellate
    \/ SweepEvent
    \/ EndGeometry

Spec == Init /\ [][Next]_vars

(***************************************************************************)
(* One FillTessellator used for several paths in a row.                    *)
(***************************************************************************)
MaxCalls == 2

ReusePaths == {<<>>, TrianglePath, QuadUpPath, TwoEndsPath, CrossingPath}

InitReuse == Init /\ path \in ReusePaths

\* The next call of tessellate_path on the instance, with a new path and a
\* new geometry builder, lines 263-273: the fields of the FillTessellator
\* are as the last call left them.
TessellateAgain ==
    /\ pc = "done"
    /\ run.calls < MaxCalls
    /\ path' \in ReusePaths
    /\ cursor' = 1
    /\ tb' = BuilderNew
    /\ events' = TraversalNew
    /\ edge_data' = <<>>
    /\ current_event' = 0
    /\ out' = OutNew
    /\ ev' = EvNew
    /\ run' = [calls |-> run.calls + 1, kinds |-> {}]
    /\ pc' = "build"
    /\ UNCHANGED <<tx, tx_obs, fill_rule, active, spans, edges_below,
                   current_position>>

NextReuse ==
    \/ MoveTo
    \/ LineTo
    \/ QuadraticTo
    \/ Close
    \/ Tessellate
    \/ SweepEvent
    \/ EndGeometry
    \/ TessellateAgain

SpecReuse == InitReuse /\ [][NextReuse]_vars

(***************************************************************************)
(* Classes of input paths, read off the built edge_data (the edges the     *)
(* sweep is given).                                                        *)
(***************************************************************************)
Cross(a, b, c) == (b.x - a.x) * (c.y - a.y) - (b.y - a.y) * (c.x - a.x)

Between(a, b, v) == (a <= v /\ v <= b) \/ (b <= v /\ v <= a)

\* p lies on the closed segment a-b.
OnSegment(a, b, p) ==
    Cross(a, b, p) = 0 /\ Between(a.x, b.x, p.x) /\ Between(a.y, b.y, p.y)

Opposite(u, v) == (u > 0 /\ v < 0) \/ (u < 0 /\ v > 0)

\* The closed segments a-b and c-d have a common point.
SegmentsMeet(a, b, c, d) ==
    \/ Opposite(Cross(a, b, c), Cross(a, b, d)) /\ Opposite(Cross(c, d, a), Cross(c, d, b))
    \/ OnSegment(a, b, c) \/ OnSegment(a, b, d)
    \/ OnSegment(c, d, a) \/ OnSegment(c, d, b)

\* The two segments have no common point but one shared endpoint.
MeetOnlyAtEndpoint(a, b, c, d) ==
    \/ ~SegmentsMeet(a, b, c, d)
    \/ /\ Cardinality({a, b} \cap {c, d}) = 1
       /\ LET sh == CHOOSE q \in {a, b} \cap {c, d} : TRUE
              o1 == IF a = sh THEN b ELSE a
              o2 == IF c = sh THEN d ELSE c
          IN ~OnSegment(sh, o1, o2) /\ ~OnSegment(sh, o2, o1)

RealEdges == { i \in 1..Len(edge_data) : edge_data[i].to # INVALID }

EdgeUpper(i) == PathAt(path, edge_data[i].from)

EdgeLower(i) == PathAt(path, edge_data[i].to)

\* The edges of the path meet only at shared endpoints.
SimpleInput ==
    \A i, j \in RealEdges :
        i < j => MeetOnlyAtEndpoint(EdgeUpper(i), EdgeLower(i), EdgeUpper(j), EdgeLower(j))

(***************************************************************************)
(* The segments of a path, read off the path events alone.                 *)
(***************************************************************************)
\* The segment drawn from point a to point b of sub-path sp.  A segment
\* from a point to itself is left out unless keep is set.
Stroke(a, b, sp, keep) ==
    IF IsNan(a) \/ (a = b /\ ~keep) THEN <<>>
    ELSE <<[a |-> a, b |-> b, sp |-> sp]>>

\* The segments of events i.. of the path, the pen being at cur in the
\* sub-path that started at first: one per line or quadratic segment, and
\* the closing segment back to first where a sub-path ends.
RECURSIVE Strokes(_, _, _, _, _, _)
Strokes(p, i, first, cur, sp, keep) ==
    IF i > Len(p) THEN Stroke(cur, first, sp, keep)
    ELSE CASE p[i].k = "MoveTo" ->
                Stroke(cur, first, sp, keep)
                  \o Strokes(p, i + 1, p[i].to, p[i].to, sp + 1, keep)
           [] p[i].k = "Close" ->
                Stroke(cur, first, sp, keep)
                  \o Strokes(p, i + 1, first, first, sp + 1, keep)
           [] OTHER ->
                Stroke(cur, p[i].to, sp, keep)
                  \o Strokes(p, i + 1, first, p[i].to, sp, keep)

\* The segments whose endpoints differ.
PathStrokes == Strokes(path, 1, NanPoint, NanPoint, 0, FALSE)

\* All the segments: every vertex of the path starts one.
AllPathStrokes == Strokes(path, 1, NanPoint, NanPoint, 0, TRUE)

\* The segments of sub-path sp among strokes, in path order.
SubPath(strokes, sp) ==
    LET In(s) == s.sp = sp IN SelectSeq(strokes, In)

\* The edge event the segment s calls for.
EdgeEventFor(s) ==
    LET up == is_after(s.a, s.b) IN
    [position |-> IF up THEN s.b ELSE s.a,
     from |-> IF up THEN s.b ELSE s.a,
     to |-> IF up THEN s.a ELSE s.b,
     winding |-> IF up THEN -1 ELSE 1]

IsEdgeEvent(e) == e.to # INVALID

\* The edge events the builder produced, in push order, with the points
\* their vertex ids stand for.
BuiltEdgeEvents ==
    LET ids == SelectSeq([i \in 1..Len(edge_data) |-> i],
                         LAMBDA i : IsEdgeEvent(edge_data[i]))
    IN [k \in 1..Len(ids) |->
          [position |-> events.events[ids[k]].position,
           from |-> PathAt(path, edge_data[ids[k]].from),
           to |-> PathAt(path, edge_data[ids[k]].to),
           winding |-> edge_data[ids[k]].winding]]

Built == pc # "build"

\* C6: the builder pushes exactly one edge event per segment whose
\* endpoints differ, at the segment's upper endpoint, with from the upper
\* vertex, to the lower vertex, and winding +1 when the path runs from the
\* upper to the lower endpoint and -1 otherwise.
C6_OneEdgeEventPerSegment ==
    Built =>
        /\ Len(events.events) = Len(edge_data)
        /\ BuiltEdgeEvents = [k \in 1..Len(PathStrokes) |-> EdgeEventFor(PathStrokes[k])]

\* A built path with a segment running down, a segment running up and a
\* quadratic segment.
C6_Witness ==
    /\ Built
    /\ \E i, j, k \in 1..Len(edge_data) :
        /\ edge_data[i].winding = 1
        /\ edge_data[j].winding = -1
        /\ edge_data[k].ctrl # INVALID /\ edge_data[k].winding = -1

\* The vertices of sub-path sp that are after both their previous and their
\* next vertex, the sub-path taken cyclically: indices into its segments.
Peaks(strokes, sp) ==
    LET q == SubPath(strokes, sp) IN
    { k \in 1..Len(q) :
        /\ is_after(q[k].a, q[IF k = 1 THEN Len(q) ELSE k - 1].a)
        /\ is_after(q[k].a, q[k].b) }

PeaksAt(strokes, pos) ==
    UNION { { <<sp, k>> : k \in { j \in Peaks(strokes, sp) :
                                    SubPath(strokes, sp)[j].a = pos } } :
            sp \in 0..(Len(path) + 1) }

VertexEventsAt(pos) ==
    { i \in 1..Len(edge_data) :
        ~IsEdgeEvent(edge_data[i]) /\ events.events[i].position = pos }

PathPositions ==
    { PathStrokes[k].a : k \in 1..Len(PathStrokes) }
      \cup { events.events[i].position : i \in 1..Len(events.events) }

VertexEventsAreEmpty ==
    \A i \in 1..Len(edge_data) :
        ~IsEdgeEvent(edge_data[i]) =>
            edge_data[i] = EdgeDataOf(INVALID, INVALID, INVALID, 0)

\* C7 as stated: the builder emits one vertex-only event (from, ctrl, to
\* INVALID, winding 0) at each vertex of the path that is after both its
\* previous and its next vertex in its sub-path, and none at any other.
C7_VertexEventsAtPeaks ==
    Built =>
        /\ VertexEventsAreEmpty
        /\ \A pos \in PathPositions :
             Cardinality(VertexEventsAt(pos))
               = Cardinality(PeaksAt(AllPathStrokes, pos))

\* C7, with consecutive vertices at one position taken as one vertex (the
\* segments from a point to itself dropped): one vertex-only event at each
\* vertex that is after both its cyclic neighbours, none at any other.
C7_VertexEventsAtMergedPeaks ==
    Built =>
        /\ VertexEventsAreEmpty
        /\ \A pos \in PathPositions :
             Cardinality(VertexEventsAt(pos))
               = Cardinality(PeaksAt(PathStrokes, pos))

\* A built path that comes back to its first point before it is closed,
\* with a vertex event at that point.
C7_Witness ==
    /\ Built
    /\ Len(AllPathStrokes) > Len(PathStrokes)
    /\ Len(PathStrokes) >= 3
    /\ \E i \in 1..Len(edge_data) :
        /\ ~IsEdgeEvent(edge_data[i])
        /\ events.events[i].position = path[1].to

(***************************************************************************)
(* The calls tessellate_path makes on the geometry builder.                *)
(***************************************************************************)
\* The positions of the heads of the sorted event list, in list order.
EventPositions ==
    LET h == Heads(events) IN [i \in 1..Len(h) |-> position(events, h[i])]

\* tessellate_path is over: it returned or it panicked.
Over == pc \in {"done", "panic"}

\* begin_geometry comes once and first, end_geometry at most once and
\* last, and each add_vertex is after the previous one.
CallsInOrder ==
    /\ out.begun = (IF pc \in {"sweep", "done"} \/ Len(out.vertices) > 0 THEN 1 ELSE 0)
    /\ out.ended = (IF pc = "done" THEN 1 ELSE 0)
    /\ \A i \in 1..(Len(out.vertices) - 1) :
         is_after(out.vertices[i + 1], out.vertices[i])
    /\ \A i \in 1..Len(out.vertices) : out.vertices[i] = EventPositions[i]

\* C8 as stated: begin_geometry once, then one add_vertex per distinct
\* event position in strictly increasing order, then end_geometry once
\* after the last event.
C8_BeginVerticesEnd ==
    /\ CallsInOrder
    /\ Over => /\ out.begun = 1
               /\ out.vertices = EventPositions
               /\ out.ended = 1

(***************************************************************************)
(* The active list and the span list between two events.                   *)
(***************************************************************************)
\* The walk of lines 361-409 and 444 over the first k entries of the
\* active list: a merge placeholder bumps the span index, an edge goes
\* through update_winding.
RECURSIVE SpanWalk(_)
SpanWalk(k) ==
    IF k = 0 THEN WindingStart
    ELSE LET w == SpanWalk(k - 1) IN
         IF active[k].is_merge
         THEN [w EXCEPT !.span_index = @ + 1, !.transition = "None"]
         ELSE update_winding(fill_rule, w, active[k].winding)

\* The k-th entry of the active list is met inside the filled area.
MetInside(k) == is_in(fill_rule, SpanWalk(k - 1).number)

\* An event has been processed and the sweep goes on or is over.
EventProcessed == pc \in {"sweep", "done"} /\ Len(out.vertices) > 0

\* The spans are the inside intervals of the active list, in order.
SpansMatchActiveEdges ==
    /\ SpanWalk(Len(active)).span_index = Len(spans) - 1
    /\ ~is_in(fill_rule, SpanWalk(Len(active)).number)
    /\ \A k \in 1..Len(active) : active[k].is_merge => MetInside(k)

\* C9 as stated: after every processed event the walk over the active list
\* ends at span index (number of spans - 1), outside the filled area, and
\* meets every merge placeholder between two spans.
C9_SpansMatchActiveEdges == EventProcessed => SpansMatchActiveEdges

RECURSIVE WindingSum(_)
WindingSum(k) == IF k = 0 THEN 0 ELSE WindingSum(k - 1) + active[k].winding

\* C10 as stated: after every processed event the winding signs of the
\* active edges sum to 0.
C10_WindingReturnsToZero == EventProcessed => WindingSum(Len(active)) = 0

\* C10, for inputs whose edges meet only at shared endpoints: after every
\* processed event the winding signs of the active edges sum to 0.
C10_WindingReturnsToZeroSimple ==
    SimpleInput /\ EventProcessed => WindingSum(Len(active)) = 0

\* An event of such an input that removed edges above and left four edges
\* and a merge placeholder in the active list.
C10_Witness ==
    /\ SimpleInput
    /\ EventProcessed
    /\ ev.above_end > ev.above_start
    /\ Len(active) >= 5
    /\ \E k \in 1..Len(active) : active[k].is_merge

(***************************************************************************)
(* The runs of the test paths.                                             *)
(***************************************************************************)
\* The sweep of path p with fill rule fr is under way or over.
RunOf(p, fr) == path = p /\ fill_rule = fr /\ pc \in {"sweep", "done", "panic"}

\* The merge placeholders of the active list, by position.
Placeholders == { k \in 1..Len(active) : active[k].is_merge }

PlaceholderPositions == { active[k].from : k \in Placeholders }

\* The positions add_vertex was called with.
Processed == { out.vertices[i] : i \in 1..Len(out.vertices) }

MergePositions == {Pt(5, 5), Pt(10, 6)}

\* C11: on the path of new_tess_merge with EvenOdd a merge placeholder is
\* created at (5,5) and at (10,6) and at no other event, each is absorbed
\* at a strictly later event, and the sweep ends with an empty span list
\* and an empty active list.
C11_MergePlaceholders ==
    RunOf(MergePath, "EvenOdd") =>
        /\ pc # "panic"
        /\ ("merge" \in ev.kinds) = (current_position \in MergePositions)
        /\ PlaceholderPositions \subseteq (MergePositions \cap Processed)
        /\ Cardinality(Placeholders) = Cardinality(PlaceholderPositions)
        /\ current_position \in MergePositions
             => current_position \in PlaceholderPositions
        /\ \A m \in (MergePositions \cap Processed) \ PlaceholderPositions :
             is_after(current_position, m)
        /\ "resolve" \in ev.kinds
             => is_after(current_position, Pt(10, 6))
        /\ pc = "done" => /\ active = <<>>
                          /\ spans = <<>>
                          /\ Processed \cap MergePositions = MergePositions

\* The event of that run that absorbs the two placeholders.
C11_Witness ==
    /\ RunOf(MergePath, "EvenOdd")
    /\ Len(ev.merges) = 2
    /\ "resolve" \in ev.kinds
    /\ Placeholders = {}

EventBranches == {"left", "right", "start", "end", "merge", "split"}

\* C12 as stated: on the star of new_tess1 with EvenOdd the sweep takes
\* each of the branches left, right, start, end, merge and split at least
\* once.
C12_SixBranches ==
    RunOf(StarPath, "EvenOdd") /\ pc # "sweep" =>
        /\ pc = "done"
        /\ EventBranches \subseteq run.kinds

\* C12, without the merge branch: the sweep of the star takes each of the
\* branches left, right, start, end and split at least once, and never the
\* merge branch.
C12_FiveBranches ==
    RunOf(StarPath, "EvenOdd") =>
        /\ pc # "panic"
        /\ "merge" \notin run.kinds
        /\ pc = "done" => run.kinds = EventBranches \ {"merge"}

\* The sweep of the star is over, its eight positions processed.
C12_Witness ==
    /\ RunOf(StarPath, "EvenOdd")
    /\ pc = "done"
    /\ Len(out.vertices) = 8
    /\ "split" \in run.kinds

TriangleVertices == <<Pt(0, 0), Pt(5, 1), Pt(3, 5)>>

\* C13: on the triangle of new_tess_triangle with EvenOdd the output
\* vertices are (0,0), (5,1), (3,5) in that order, one span is begun, at
\* (0,0), it is fed (5,1) as a Right vertex and ended at (3,5), and the
\* span list and the active list are empty at the end.
C13_Triangle ==
    RunOf(TrianglePath, "EvenOdd") =>
        LET n == Len(out.vertices) IN
        /\ pc # "panic"
        /\ n <= 3
        /\ out.vertices = SubSeq(TriangleVertices, 1, n)
        /\ pc = "done" => n = 3
        /\ n = 0 => spans = <<>> /\ active = <<>>
        /\ n = 1 =>
             /\ ev.ops = <<SpanOp("begin", 0, Pt(0, 0), "-")>>
             /\ spans = <<[tess |-> <<TessCall("begin", Pt(0, 0), 0, "-")>>,
                           remove |-> FALSE]>>
        /\ n = 2 =>
             /\ ev.ops = <<SpanOp("vertex", 0, Pt(5, 1), "Right")>>
             /\ spans = <<[tess |-> <<TessCall("begin", Pt(0, 0), 0, "-"),
                                      TessCall("vertex", Pt(5, 1), 1, "Right")>>,
                           remove |-> FALSE]>>
        /\ n = 3 =>
             /\ ev.ops = <<SpanOp("end", 0, Pt(3, 5), "-")>>
             /\ spans = <<>>
             /\ active = <<>>

\* The sweep of the triangle is over.
C13_Witness ==
    /\ RunOf(TrianglePath, "EvenOdd")
    /\ pc = "done"
    /\ out.vertices = TriangleVertices
    /\ run.kinds = {"start", "right", "end"}

\* The path has no segment with distinct endpoints: it is empty, or made
\* of move-to's, closes and segments from a point to itself.
DegeneratePath == Len(PathStrokes) = 0

\* C14: for a path with no segment between distinct points the builder
\* produces no event and tessellate_path ends without error, with no
\* vertex added and no span begun.
C14_DegeneratePaths ==
    DegeneratePath =>
        /\ tb.tx.events = <<>>
        /\ tb.edge_data = <<>>
        /\ Built => events.events = <<>> /\ edge_data = <<>>
        /\ pc \in {"build", "sweep", "done"}
        /\ out.vertices = <<>>
        /\ spans = <<>>
        /\ active = <<>>
        /\ ev.ops = <<>>
        /\ run.kinds = {}

\* tessellate_path is over on a path made of segments from a point to
\* itself.
C14_Witness ==
    /\ DegeneratePath
    /\ pc = "done"
    /\ out.ended = 1
    /\ \E i \in 1..Len(path) : path[i].k = "LineTo"

(***************************************************************************)
(* Reuse of a FillTessellator.                                             *)
(***************************************************************************)
\* tessellate_path has just been called.
CallStart == pc = "build" /\ cursor = 1 /\ tb = BuilderNew

\* C15 as stated: at the start of every tessellate_path call the active
\* list, the span list and the pending-edge list are empty.
C15_CallsStartEmpty ==
    CallStart => active = <<>> /\ spans = <<>> /\ edges_below = <<>>

(***************************************************************************)
(* Span indices in the sweep handlers.                                     *)
(***************************************************************************)
SpanIndexPanics ==
    {"span index out of bounds", "end_span: span index out of bounds",
     "merge_spans: span index out of bounds",
     "begin_span: insertion index out of bounds"}

\* C16 as stated: no handler of the sweep aborts on a span index that is out
\* of range.
C16_NoSpanIndexAbort == ~(pc = "panic" /\ ev.panic \in SpanIndexPanics)

(***************************************************************************)
(* End events.                                                             *)
(***************************************************************************)
\* The active edges that end at P.
EndingAt(P) ==
    {k \in 1..Len(active) : ~active[k].is_merge /\ PtEq(active[k].to, P)}

\* The edges that end at P are adjacent pairs of an edge that enters the
\* filled area and an edge that leaves it.
InOutPairsAt(P) ==
    /\ EndingAt(P) # {}
    /\ \A k \in EndingAt(P) :
         \/ /\ SpanWalk(k).transition = "In"
            /\ k + 1 \in EndingAt(P)
            /\ SpanWalk(k + 1).transition = "Out"
         \/ /\ SpanWalk(k).transition = "Out"
            /\ k - 1 \in EndingAt(P)
            /\ SpanWalk(k - 1).transition = "In"

\* The step is the end event of an input whose edges meet only at shared
\* endpoints: pairs of active edges end at the event's point, no edge passes
\* through it and none goes down from it.
EndEventStep ==
    /\ SimpleInput
    /\ pc = "sweep" /\ valid_id(events, current_event)
    /\ pc' = "sweep"
    /\ InOutPairsAt(position(events, current_event))
    /\ ev'.nbelow = 0
    /\ ev'.splits = <<>>

\* C17 as stated: when k >= 1 adjacent In/Out pairs of active edges end at
\* P, the event ends exactly k spans, and the span index goes up by exactly
\* 1 from one ended span to the next.
C17_EndsEveryPair ==
    [][EndEventStep =>
         /\ 2 * Len(ev'.ends) =
              Cardinality(EndingAt(position(events, current_event)))
         /\ \A j \in 1..(Len(ev'.ends) - 1) : ev'.ends[j + 1] = ev'.ends[j] + 1]_vars

(***************************************************************************)
(* The lists when tessellate_path returns.                                 *)
(***************************************************************************)
\* Every sub-path of the path is a polygon ended by close.
ClosedPolygons ==
    /\ \A i \in 1..Len(path) : path[i].k \in {"MoveTo", "LineTo", "Close"}
    /\ \A i \in 2..Len(path) : path[i].k = "MoveTo" => path[i - 1].k = "Close"
    /\ Len(path) > 0 => path[Len(path)].k = "Close"

\* C18 as stated, and only for polygons whose edges meet only at shared
\* endpoints: when tessellate_path has returned the active list holds no
\* edge and no merge placeholder and the span list is empty.
C18_ListsEmptyAtReturn ==
    pc = "done" /\ ClosedPolygons /\ SimpleInput
        => active = <<>> /\ spans = <<>>

(***************************************************************************)
(* Merge events.                                                           *)
(***************************************************************************)
\* The last event turned an active edge into a merge placeholder.
MergeEventDone == EventProcessed /\ pc = "sweep" /\ ev.pending_merge # NONE

\* The active edges that go down from the point P.
DescendingFrom(P) ==
    {k \in 1..Len(active) : ~active[k].is_merge /\ PtEq(active[k].from, P)}

\* C19 as stated: after an event that creates a merge placeholder at P no
\* active edge has P as its upper endpoint.
C19_NoEdgeBelowMerge == MergeEventDone => DescendingFrom(current_position) = {}
\* The k-th active edge is the placeholder of a merge at P made by the last
\* event.
MergePlaceholderAt(k, P) ==
    /\ active[k].is_merge
    /\ active[k].from = P /\ active[k].to = P /\ active[k].ctrl = P
    /\ active[k].winding = 0
    /\ active[k].from_id = Len(out.vertices) - 1

\* The k-th active edge, if it is an edge from above P, passes on the given
\* side of P ("lt": left of it).
PassesAt(k, P, side) ==
    \/ active[k].is_merge
    \/ PtEq(active[k].from, P)
    \/ solve_x_for_y(active[k], P) = side

\* The placeholder of the last event is in the active list between the
\* edges that pass left of P and those that pass right of it, and no edge
\* that ends at P is left.
PlaceholderInPlace(P) ==
    /\ \E k \in 1..Len(active) :
         /\ MergePlaceholderAt(k, P)
         /\ \A j \in 1..(k - 1) : PassesAt(j, P, "lt")
         /\ \A j \in (k + 1)..Len(active) : PassesAt(j, P, "gt")
    /\ EndingAt(P) = {}

\* C20: after a merge event at P the active list holds, between the edges
\* left and right of P, a placeholder with is_merge set, from = to = ctrl =
\* P, winding 0 and from_id the event's vertex, and no other edge that ended
\* at P.
C20_PlaceholderInPlace == MergeEventDone => PlaceholderInPlace(current_position)

\* A merge event that removed the other edge that ended at P and left the
\* placeholder with an edge on its left and an edge on its right.
C20_Witness ==
    /\ MergeEventDone
    /\ ev.above_end - ev.above_start >= 2
    /\ \E k \in 2..(Len(active) - 1) :
         /\ MergePlaceholderAt(k, current_position)
         /\ ~active[k - 1].is_merge /\ ~active[k + 1].is_merge
    /\ PlaceholderInPlace(current_position)

(***************************************************************************)
(* The unwrap and the subtraction in process_events.                       *)
(***************************************************************************)
\* C29: the end branch of the walk over the active edges never finds
\* prev_transition_in empty: prev_transition_in.unwrap() does not fail.
C29_PrevInRecorded == ev.panic # "prev_transition_in.unwrap() on None"

\* An event that took the end branch, under NonZero.
C29_Witness ==
    /\ EventProcessed /\ fill_rule = "NonZero"
    /\ "end" \in ev.kinds
    /\ Len(ev.ends) > 0

\* C30: when the split branch is taken above.start is at least 1 and at
\* most the length of the active list: above.start - 1 does not underflow
\* and is the index of an active entry.
C30_EdgeAboveExists ==
    /\ ev.panic # "split: above.start - 1 underflows"
    /\ ev.split_above # NONE => ev.split_above >= 1 /\ ev.split_above <= ev.split_len

\* An event that took the split branch with the insertion index in the
\* middle of the active list.
C30_Witness ==
    /\ EventProcessed
    /\ ev.split_above # NONE
    /\ ev.split_above < ev.split_len
    /\ ev.split_above > 1

(***************************************************************************)
(* Right events.                                                           *)
(***************************************************************************)
\* C25 as stated: the pending edge that consumes a pending right event
\* gives an Out transition, so the debug assertion of line 671 holds.
C25_RightEventIsOut == ~ev.dbg

(***************************************************************************)
(* Inputs in which a vertex may lie on an edge.                            *)
(***************************************************************************)
\* The segments a-b and c-d lie on one line and share more than a point.
Overlap(a, b, c, d) ==
    /\ Cross(a, b, c) = 0 /\ Cross(a, b, d) = 0
    /\ \/ {a, b} = {c, d}
       \/ OnSegment(a, b, c) /\ c \notin {a, b}
       \/ OnSegment(a, b, d) /\ d \notin {a, b}
       \/ OnSegment(c, d, a) /\ a \notin {c, d}
       \/ OnSegment(c, d, b) /\ b \notin {c, d}

\* The segments cross at a point inside both.
ProperCross(a, b, c, d) ==
    /\ Opposite(Cross(a, b, c), Cross(a, b, d))
    /\ Opposite(Cross(c, d, a), Cross(c, d, b))

\* No two edges of the path cross or overlap: they meet at endpoints, and an
\* endpoint of one may lie inside the other.
TouchInput ==
    \A i, j \in RealEdges :
        i < j =>
          /\ ~ProperCross(EdgeUpper(i), EdgeLower(i), EdgeUpper(j), EdgeLower(j))
          /\ ~Overlap(EdgeUpper(i), EdgeLower(i), EdgeUpper(j), EdgeLower(j))

(***************************************************************************)
(* What an event removes from the active list.                             *)
(***************************************************************************)
\* The step processes one event and the sweep goes on.
SweepStep == pc = "sweep" /\ pc' = "sweep" /\ valid_id(events, current_event)

\* The entry e of the active list is in the list after the step.
Kept(e) == \E k \in 1..Len(active') : active'[k] = e

\* The indices (from 0) of the edges the step split at its point.
SplitIndices == {ev'.splits[j] : j \in 1..Len(ev'.splits)}

\* The indices (from 0) of the placeholders the step resolved.
ResolvedIndices == {ev'.merges[j][2] : j \in 1..Len(ev'.merges)}

\* The step keeps every edge that neither ends at its point P nor passes
\* through P, keeps every placeholder that it neither resolves nor takes out
\* in the merge+split branch, and leaves no edge that ends at P.
RemovesEdgesEndingAtPoint ==
    /\ \A k \in 1..Len(active) :
         /\ ~active[k].is_merge
         /\ ~PtEq(active[k].to, current_position')
         /\ (k - 1) \notin SplitIndices
         => Kept(active[k])
    /\ \A k \in 1..Len(active) :
         /\ active[k].is_merge
         /\ (k - 1) \notin ResolvedIndices
         /\ "merge_split" \notin ev'.kinds
         => Kept(active[k])
    /\ \A k \in 1..Len(active') :
         active'[k].is_merge \/ ~PtEq(active'[k].to, current_position')

\* C26 as stated, and only for inputs whose edges do not cross or overlap
\* (a vertex may lie on an edge): an event removes from the active list the
\* edges that end at its point, whole or cut at it, and no other edge and no
\* placeholder whose merge flag is set, and leaves no edge ending at the
\* point.
C26_RemovedAtLowerEndpoint ==
    [][SweepStep /\ TouchInput => RemovesEdgesEndingAtPoint]_vars

(***************************************************************************)
(* The order of the active list.                                           *)
(***************************************************************************)
\* The x of the edge e at the sweep line y as the fraction XNum / XDen; a
\* horizontal edge counts at its left end.
XDen(e) == IF e.to.y = e.from.y THEN 1 ELSE e.to.y - e.from.y

XNum(e, y) ==
    IF e.to.y = e.from.y THEN e.from.x
    ELSE e.from.x * (e.to.y - e.from.y) + (y - e.from.y) * (e.to.x - e.from.x)

XLeq(e1, e2, y) == XNum(e1, y) * XDen(e2) <= XNum(e2, y) * XDen(e1)

\* Of two edges that go down from one point, e1 is the left one.
LeftBelow(e1, e2) ==
    (e1.to.x - e1.from.x) * (e2.to.y - e2.from.y)
        < (e2.to.x - e2.from.x) * (e1.to.y - e1.from.y)

\* The edges of the active list, placeholders left out, are in the order of
\* their x at the sweep line y.
OrderedAt(y) ==
    \A i, j \in 1..Len(active) :
        i < j /\ ~active[i].is_merge /\ ~active[j].is_merge
            => XLeq(active[i], active[j], y)

\* The edges that go down from P are at consecutive indices from base + 1
\* on, the left one first.
InsertedInOrder(P, base) ==
    LET n == Cardinality(DescendingFrom(P)) IN
    /\ DescendingFrom(P) = (base + 1)..(base + n)
    /\ \A k \in (base + 1)..(base + n - 1) : LeftBelow(active[k], active[k + 1])

\* C27: for inputs whose edges meet only at shared endpoints, after every
\* event the edges of the active list are ordered by their x at the sweep
\* line, and the edges that go down from the event's point are at
\* consecutive indices from the base of the removed range on, left to right.
C27_ActiveEdgesOrdered ==
    SimpleInput /\ EventProcessed /\ pc = "sweep"
        => /\ OrderedAt(current_position.y)
           /\ InsertedInOrder(current_position, ev.above_start)

\* An event of such an input that put two edges between two others.
C27_Witness ==
    /\ SimpleInput /\ EventProcessed /\ pc = "sweep"
    /\ Cardinality(DescendingFrom(current_position)) = 2
    /\ ev.above_start >= 1
    /\ Len(active) > ev.above_start + 2
    /\ OrderedAt(current_position.y)
    /\ InsertedInOrder(current_position, ev.above_start)

(***************************************************************************)
(* An edge that passes through the point of an event.                      *)
(***************************************************************************)
\* The k-th active edge passes through the point P without ending there.
PassesThrough(k, P) ==
    /\ ~active[k].is_merge
    /\ OnSegment(active[k].from, active[k].to, P)
    /\ ~PtEq(active[k].to, P) /\ ~PtEq(active[k].from, P)

\* The entry of the list after the step at index m is the part below P of
\* the edge e.
LowerPart(m, e, P) ==
    /\ ~active'[m].is_merge
    /\ active'[m].from = P /\ active'[m].to = e.to
    /\ active'[m].to_id = e.to_id
    /\ active'[m].winding = e.winding

\* The k-th active edge has been cut at P: the list after the step holds the
\* part below P once, between the entries that were left and right of the
\* edge and are still there, and holds no part that ends at P.
CutAt(k, P) ==
    /\ ~Kept(active[k])
    /\ Cardinality({m \in 1..Len(active') : LowerPart(m, active[k], P)}) = 1
    /\ \A m \in 1..Len(active') :
         LowerPart(m, active[k], P) =>
           \A i \in 1..Len(active), j \in 1..Len(active') :
               i # k /\ active'[j] = active[i] => (i < k <=> j < m)
    /\ \A m \in 1..Len(active') :
         active'[m].is_merge \/ ~PtEq(active'[m].to, P)

\* C28 as stated, and only for inputs whose edges do not cross or overlap:
\* an active edge that passes through the point P of an event without ending
\* there is replaced, in its place, by one edge from P to its lower endpoint
\* with the same winding, and the part above P is removed.
C28_EdgeCutAtPoint ==
    [][SweepStep /\ TouchInput =>
         \A k \in 1..Len(active) :
             PassesThrough(k, current_position') => CutAt(k, current_position')]_vars

(***************************************************************************)
(* The merge placeholders an event resolves.                               *)
(***************************************************************************)
\* The span operations of the step hold, one after the other, the merge
\* vertex M as a Right vertex of span si, M as a Left vertex of span si + 1
\* and the end of span si at the step's point.
MergeOps(si, M) ==
    LET ops == ev'.ops IN
    \E k \in 1..(Len(ops) - 2) :
        /\ ops[k] = SpanOp("vertex", si, M, "Right")
        /\ ops[k + 1] = SpanOp("vertex", si + 1, M, "Left")
        /\ ops[k + 2] = SpanOp("end", si, current_position', "-")

\* No span operation of the step names the merge vertex M.
NoMergeOps(M) == \A k \in 1..Len(ev'.ops) : ev'.ops[k].pos # M

\* After the step the active list holds no placeholder at M and no span
\* marked for removal.
PlaceholderGone(M) ==
    /\ \A m \in 1..Len(active') : ~(active'[m].is_merge /\ active'[m].from = M)
    /\ \A m \in 1..Len(spans') : ~spans'[m].remove

\* The merge vertex of the j-th placeholder the step queued.
MergeVertex(j) == active[ev'.merges[j][2] + 1].from

\* The placeholders of the active list that the walk of the step meets
\* after an edge that touches the step's point.
MetAfterTouch ==
    {k \in 1..Len(active) :
       /\ active[k].is_merge
       /\ \E i \in 1..(k - 1) :
            /\ ~active[i].is_merge
            /\ \/ PtEq(active[i].to, current_position')
               \/ solve_x_for_y(active[i], current_position') = "eq"
       /\ \A i \in 1..(k - 1) :
            \/ active[i].is_merge
            \/ PtEq(active[i].to, current_position')
            \/ solve_x_for_y(active[i], current_position') # "gt"}

\* The placeholders the step queued in merges_to_resolve.
Queued == {ev'.merges[j][2] + 1 : j \in 1..Len(ev'.merges)}

\* C21 as stated: every placeholder met in the walk after an edge that
\* touches P is resolved at the event: its merge vertex is fed to the span
\* on its left and to the span on its right, the left span is ended at P,
\* and the placeholder is gone from the active list.
C21_MergesResolved ==
    [][SweepStep =>
         /\ Queued = MetAfterTouch
         /\ \A j \in 1..Len(ev'.merges) :
              /\ MergeOps(ev'.merges[j][1], MergeVertex(j))
              /\ PlaceholderGone(MergeVertex(j))]_vars

\* C21, with the case that merge_spans returns early: every placeholder met
\* in the walk after an edge that touches P is queued and is gone from the
\* active list after the event; its merge vertex is fed to the spans at its
\* span index and the next and the first of them is ended at P if the span
\* list has a span after its span index, and otherwise no span is touched
\* for it.
C21_MergesResolvedOrSkipped ==
    [][SweepStep =>
         /\ Queued = MetAfterTouch
         /\ \A j \in 1..Len(ev'.merges) :
              /\ PlaceholderGone(MergeVertex(j))
              /\ IF ev'.merges[j][1] + 1 < Len(spans)
                 THEN MergeOps(ev'.merges[j][1], MergeVertex(j))
                 ELSE NoMergeOps(MergeVertex(j))]_vars

\* An event that resolved a placeholder: a Right vertex, a Left vertex in
\* the next span, and the end of the first span.
C21_Witness ==
    /\ EventProcessed
    /\ Len(ev.merges) >= 1
    /\ "resolve" \in ev.kinds
    /\ Len(ev.ops) >= 3
    /\ ev.ops[1].op = "vertex" /\ ev.ops[1].side = "Right"
    /\ ev.ops[2].op = "vertex" /\ ev.ops[2].side = "Left"
    /\ ev.ops[2].idx = ev.ops[1].idx + 1
    /\ ev.ops[3].op = "end" /\ ev.ops[3].idx = ev.ops[1].idx
    /\ ev.ops[3].pos = current_position

(***************************************************************************)
(* The split event.                                                        *)
(***************************************************************************)
\* No edge of the active list ends at P or passes through P.
NoEdgeTouches(P) ==
    \A k \in 1..Len(active) :
        ~active[k].is_merge
        => ~PtEq(active[k].to, P) /\ solve_x_for_y(active[k], P) # "eq"

\* The number of entries of the active list before the place where the
\* edges that descend from P go: the entries before the first edge on the
\* right of P.
InsertionIndex(P) ==
    LET right == {k \in 1..Len(active) :
                    ~active[k].is_merge /\ solve_x_for_y(active[k], P) = "gt"}
    IN IF right = {} THEN Len(active)
       ELSE (CHOOSE k \in right : \A m \in right : k <= m) - 1

\* The case of the split event at the point P of the step: no active edge
\* touches P, the winding before P is inside, two edges or more descend
\* from P.
SplitCase(P) ==
    /\ NoEdgeTouches(P)
    /\ InsertionIndex(P) >= 1
    /\ is_in(fill_rule, SpanWalk(InsertionIndex(P)).number)
    /\ ev'.nbelow >= 2

\* The spans the step begins at P.
StartsAt(P) ==
    {j \in 1..Len(ev'.ops) : ev'.ops[j].op = "begin" /\ ev'.ops[j].pos = P}

\* The step begins a span at the upper endpoint of the entry left of P, at
\* the index of the span that contains P, and feeds P to it as a Right
\* vertex and to the span after it as a Left vertex.
SplitsSpan(P) ==
    LET si == SpanWalk(InsertionIndex(P)).span_index
        upper_pos == active[InsertionIndex(P)].from
    IN /\ Len(ev'.ops) >= 3
       /\ SubSeq(ev'.ops, 1, 3) =
            << SpanOp("begin", si, upper_pos, "-"),
               SpanOp("vertex", si, P, "Right"),
               SpanOp("vertex", si + 1, P, "Left") >>
       /\ Len(spans') > si + 1
       /\ spans'[si + 1].tess =
            << TessCall("begin", upper_pos, active[InsertionIndex(P)].from_id, "-"),
               TessCall("vertex", P, Len(out.vertices), "Right") >>
       /\ si < Len(spans)
       /\ spans'[si + 2].tess =
            Append(spans[si + 1].tess,
                   TessCall("vertex", P, Len(out.vertices), "Left"))

\* C22 as stated: at an event where no active edge touches P, the winding
\* before P is inside, two edges or more descend and the entry left of P is
\* not a placeholder, the span list grows by exactly one span, begun at the
\* upper endpoint of the left edge and inserted left of the span that
\* contains P; P goes to the new span as a Right vertex and to the old one
\* as a Left vertex.
C22_SplitAddsOneSpan ==
    [][SweepStep /\ SplitCase(current_position')
         /\ ~active[InsertionIndex(current_position')].is_merge
       => /\ Len(spans') = Len(spans) + 1
          /\ SplitsSpan(current_position')]_vars

\* C22 with the spans of the interior pending edges counted: in that case
\* the span list grows by the span of the split, begun at the upper endpoint
\* of the left edge and inserted left of the span that contains P, and by
\* one span for each start event of the walk over the pending edges between
\* the first and the last; P goes to the new span as a Right vertex and to
\* the old one as a Left vertex.
C22_SplitAddsSpanAndStarts ==
    [][SweepStep /\ SplitCase(current_position')
         /\ ~active[InsertionIndex(current_position')].is_merge
       => /\ Len(spans') = Len(spans) + 1 + Cardinality(StartsAt(current_position'))
          /\ SplitsSpan(current_position')]_vars

\* A split event under an edge has happened, with four descending edges.
C22_Witness ==
    /\ pc = "sweep"
    /\ "split" \in ev.kinds
    /\ ev.nbelow >= 4
    /\ Len(ev.ops) >= 3
    /\ ev.ops[1].op = "begin" /\ ev.ops[1].pos # current_position
    /\ ev.ops[2] = SpanOp("vertex", ev.ops[1].idx, current_position, "Right")
    /\ ev.ops[3] = SpanOp("vertex", ev.ops[1].idx + 1, current_position, "Left")

(***************************************************************************)
(* The start events of the walk over the pending edges.                    *)
(***************************************************************************)
\* The winding after the i-th edge that descends from the point of the
\* step, in the walk over the active list the step leaves: the pending edges
\* are in it from the index above.start on.
WindingBelow(i) == SpanWalk(ev.above_start + i)'

\* The pending edges that open an inside interval closed by a later pending
\* edge: the i-th gives an In transition and an edge after it gives Out.
InsideStarts ==
    {i \in 1..(ev'.nbelow - 1) :
        /\ WindingBelow(i).transition = "In"
        /\ \E j \in (i + 1)..ev'.nbelow : WindingBelow(j).transition = "Out"}

\* A span has been begun at P for the interval the i-th pending edge opens,
\* at the index that is the number of the spans on its left.
BegunBelow(i, P) ==
    LET si == WindingBelow(i).span_index
    IN /\ \E j \in StartsAt(P) : ev'.ops[j].idx = si
       /\ si < Len(spans')
       /\ spans'[si + 1].tess = <<TessCall("begin", P, Len(out.vertices), "-")>>

\* C24, for inputs whose edges meet only at shared endpoints: at every
\* event, split events included, one span is begun at P for each inside
\* interval between two pending edges, at the index that is the number of
\* open spans on its left, and no other span is begun at P.
C24_StartsEveryInsideInterval ==
    [][SweepStep /\ SimpleInput
       => /\ Cardinality(StartsAt(current_position')) = Cardinality(InsideStarts)
          /\ \A i \in InsideStarts : BegunBelow(i, current_position')]_vars

(***************************************************************************)
(* The split event under a merge placeholder.                              *)
(***************************************************************************)
\* The step is one iteration of the sweep loop, finished or aborted.
SweepAttempt == pc = "sweep" /\ valid_id(events, current_event)

\* The step takes the merge+split branch at P to its end: the merge vertex
\* and P go as Right vertices to the span left of the placeholder and as
\* Left vertices to the span right of it, the number of spans is the same,
\* and the edges that descend from P take the place of the placeholder in
\* the active list.
MergeAboveSplit(P) ==
    LET ins == InsertionIndex(P)
        M == active[ins].from
        si == SpanWalk(ins).span_index
        n == ev'.nbelow
    IN /\ pc' = "sweep"
       /\ Len(ev'.ops) >= 4
       /\ SubSeq(ev'.ops, 1, 4) =
            << SpanOp("vertex", si - 1, M, "Right"),
               SpanOp("vertex", si - 1, P, "Right"),
               SpanOp("vertex", si, M, "Left"),
               SpanOp("vertex", si, P, "Left") >>
       /\ Len(spans') = Len(spans)
       /\ Len(active') = Len(active) - 1 + n
       /\ \A k \in 1..(ins - 1) : active'[k] = active[k]
       /\ \A k \in ins..(ins + n - 1) :
             ~active'[k].is_merge /\ active'[k].from = P
       /\ \A k \in (ins + 1)..Len(active) : active'[k + n - 1] = active[k]

\* C23, for inputs whose edges meet only at shared endpoints: at a split
\* event whose left neighbour in the active list is a merge placeholder,
\* the merge vertex and then P are fed as Right vertices to the span left of
\* the placeholder and as Left vertices to the span right of it, the
\* placeholder is removed, the number of spans is unchanged and the pending
\* edges are inserted at the slot the placeholder had.
C23_MergeAboveSplit ==
    [][SweepAttempt /\ SimpleInput /\ SplitCase(current_position')
         /\ active[InsertionIndex(current_position')].is_merge
       => MergeAboveSplit(current_position')]_vars

====
